---------------------------- MODULE Spec2Model ----------------------------
(***************************************************************************)
(* Job scraper: the persistence and dedup engine (database/schema.py), the *)
(* AI key pool (llm/processor.py) and the stage scheduler                  *)
(* (scheduler/scheduler.py), each as a state machine with its own          *)
(* specification over the shared variables.                                *)
(***************************************************************************)
EXTENDS Integers, Sequences, FiniteSets, TLC

VARIABLES
    jobs,       \* the jobs table: a set of rows, each with a unique id
    nextId,     \* the next AUTOINCREMENT id of the jobs table
    call,       \* the last store operation called, with its arguments
    ret,        \* what that operation returned
    nops,       \* number of store operations performed so far
    wpc,        \* per connection: position inside insert_job
    wjob,       \* per connection: the record being inserted
    wdup,       \* per connection: what _find_duplicate returned
    wret,       \* per connection: the result of its last insert_job
    raced       \* both connections were between lookup and write at once

dbVars == <<jobs, nextId, call, ret, nops, wpc, wjob, wdup, wret, raced>>

VARIABLES
    clock,          \* time.time(), in seconds
    keys,           \* KeyRotator.keys: the names of the loaded keys, in order
    request_times,  \* per key name: the deque of request timestamps
    lock,           \* KeyRotator.lock: the thread that holds it, or NoThread
    tpc,            \* per worker thread: position inside a KeyRotator call
    top,            \* per worker thread: the method it is in
    tnow,           \* per worker thread: its local current_time
    tkey,           \* per worker thread: the key its scan selected
    tres,           \* the result of the call that finished last
    grants          \* per key name: the timestamps of all grants issued

keyVars ==
    <<clock, keys, request_times, lock, tpc, top, tnow, tkey, tres, grants>>

VARIABLES
    walltime,     \* time.time() as the scheduler sees it, in seconds
    config,       \* JobScheduler.config
    executors,    \* the stages that have an executor set
    task_states,  \* JobScheduler.task_states
    last_runs,    \* JobScheduler._last_runs
    lpos,         \* the scheduler loop: index of the stage it checks next
    lstart,       \* the starts of the loop's current pass: the stage, and
                  \* the stages that were Running at that moment
    launched,     \* the stages that have had a wrapper thread started
    tret,         \* the last run_task_now call: its task name and result
    passes,       \* whether the loop has finished a pass yet
    nstarted,     \* per stage: wrapper threads started, not yet Running
    nrunning      \* per stage: wrapper threads inside the executor

schedVars ==
    <<walltime, config, executors, task_states, last_runs, lpos, lstart,
      launched, tret, passes, nstarted, nrunning>>

VARIABLES
    bsrc,   \* api_scrape: per source, where its scrape_source task stands
    bout    \* api_scrape: the results it returns, once gathered

batchVars == <<bsrc, bout>>

VARIABLES
    npc,      \* navigate_with_retry: where the call stands
    nlog,     \* what each page.goto of the call got, in order
    nposts,   \* how the post-load actions of each 200 went, in order
    nsleeps,  \* the waits before a retry, in seconds, in order
    nret      \* what the call returned

navVars == <<npc, nlog, nposts, nsleeps, nret>>

VARIABLES
    fpc,      \* fetch_description: where the call stands
    furl,     \* its url argument
    fsource,  \* the job site, given or detected from the url
    flog,     \* what each impersonation profile tried so far got, in order
    fpage,    \* the page of the last 200
    fret      \* what the call returned

fetchVars == <<fpc, furl, fsource, flog, fpage, fret>>

VARIABLES
    pjobs,     \* process_jobs_batch: the descriptions of the jobs of the batch
    pres,      \* what process_job gave for each job
    pkeyed,    \* the jobs for which an API key was asked for
    ptallied,  \* the jobs whose future was counted
    processed_count,  \* the completed count of process_jobs_batch
    pcalls,    \* the completed counts the progress callback was given
    stats,     \* the counts the batch returns
    ppc        \* where the call stands: idle, running, returned or raised

procVars == <<pjobs, pres, pkeyed, ptallied, stats, ppc, processed_count,
              pcalls>>

VARIABLES
    kpc,      \* search_jobs: where the call stands
    ksource,  \* the adapter that runs it
    kpages,   \* the listing cards of each results page it was shown, in order
    kjobs,    \* the list of records it returns
    kbefore,  \* the stored rows when it was called
    kret,     \* how the call ended
    klog      \* what scrape_source reported for the call: its counts and
              \* the ScrapeLog entry

searchVars == <<kpc, ksource, kpages, kjobs, kbefore, kret, klog>>

VARIABLES
    rentry,   \* the entry point of the scrape run in progress
    rconns,   \* the number of JobDatabase objects created so far
    rtask     \* the scraping tasks of the run

runVars == <<rentry, rconns, rtask>>

VARIABLES
    qpc,                \* a scraper session: idle, or inside navigate_with_retry
    qnow,               \* time.time() as the session sees it, in seconds
    last_request_time,  \* BaseScraper.last_request_time
    qbegin,             \* when the first attempt of the latest call began
    qend,               \* when the call before the latest one returned
    qcalls              \* the navigate calls made so far

paceVars == <<qpc, qnow, last_request_time, qbegin, qend, qcalls>>

VARIABLES
    cpc,           \* _call_llm: where its wait for a key stands
    cnow,          \* time.time() as the caller sees it, in half seconds
    ctimes,        \* request_times of the key, in half seconds
    total_waited,  \* total_waited of the call, in half seconds
    csteals,       \* grants of the key to other workers during the call
    cspun          \* whether an iteration of the call slept for 0 s

waitVars == <<cpc, cnow, ctimes, total_waited, csteals, cspun>>


VARIABLES
    running,      \* JobScheduler._running
    stop_event,   \* whether JobScheduler._stop_event is set
    loop_thread,  \* JobScheduler._thread: the last loop thread made, or none
    loops,        \* where each loop thread stands
    callers,      \* where each thread calling start() or stop() stands
    lcalls        \* the calls of start() and stop() made so far

loopVars == <<running, stop_event, loop_thread, loops, callers, lcalls>>

vars == <<dbVars, keyVars, schedVars, batchVars, navVars, fetchVars, procVars,
          searchVars, runVars,
          paceVars,
          waitVars,
          loopVars>>

\* what the actions of one component leave alone
notLoop == <<dbVars, keyVars, schedVars, batchVars, navVars, fetchVars, procVars, searchVars, runVars, paceVars, waitVars>>
notWait == <<loopVars, dbVars, keyVars, schedVars, batchVars, navVars, fetchVars, procVars, searchVars, runVars, paceVars>>
notPace == <<loopVars, waitVars, dbVars, keyVars, schedVars, batchVars, navVars, fetchVars, procVars, searchVars, runVars>>
notStore == <<loopVars, waitVars, paceVars, searchVars, runVars, procVars, fetchVars, keyVars, schedVars, batchVars, navVars>>
notKeys == <<loopVars, waitVars, paceVars, searchVars, runVars, procVars, fetchVars, dbVars, schedVars, batchVars, navVars>>
notSched == <<loopVars, waitVars, paceVars, searchVars, runVars, procVars, fetchVars, dbVars, keyVars, batchVars, navVars>>
notBatch == <<loopVars, waitVars, paceVars, searchVars, runVars, procVars, fetchVars, dbVars, keyVars, schedVars, navVars>>
notNav == <<loopVars, waitVars, paceVars, searchVars, runVars, procVars, dbVars, keyVars, schedVars, batchVars, fetchVars>>
notProc == <<loopVars, waitVars, paceVars, searchVars, runVars, dbVars, keyVars, schedVars, batchVars, navVars, fetchVars>>
notRun == <<loopVars, waitVars, paceVars, dbVars, keyVars, schedVars, batchVars, navVars, fetchVars, procVars, searchVars>>
notSearch == <<loopVars, waitVars, paceVars, runVars, keyVars, schedVars, batchVars, navVars, fetchVars, procVars>>
notFetch == <<loopVars, waitVars, paceVars, searchVars, runVars, procVars, dbVars, keyVars, schedVars, batchVars, navVars>>

NULL == "NULL"

Max(S) == CHOOSE x \in S : \A y \in S : y <= x
Min(S) == CHOOSE x \in S : \A y \in S : x <= y

(***************************************************************************)
(* Strings are sequences of one-character strings, so that the title       *)
(* normalisation and difflib's matching can be computed on them.           *)
(***************************************************************************)
LowerLetters ==
    {"a","b","c","d","e","f","g","h","i","j","k","l","m",
     "n","o","p","q","r","s","t","u","v","w","x","y","z"}
Digits == {"0","1","2","3","4","5","6","7","8","9"}

\* str.lower() on one character, for the upper-case letters the titles use
LowerChar(c) ==
    CASE c = "S" -> "s"
      [] c = "N" -> "n"
      [] c = "A" -> "a"
      [] c = "P" -> "p"
      [] c = "D" -> "d"
      [] c = "O" -> "o"
      [] OTHER -> c

\* the characters the pattern [^\w\s] does not remove
IsWordOrSpace(c) == c \in LowerLetters \cup Digits \cup {"_", " "}

RECURSIVE Normalize(_)
\* re.sub(r'[^\w\s]', '', s.lower())
Normalize(s) ==
    IF s = <<>> THEN <<>>
    ELSE LET c == LowerChar(Head(s))
         IN  IF IsWordOrSpace(c) THEN <<c>> \o Normalize(Tail(s))
             ELSE Normalize(Tail(s))

RECURSIVE RunLen(_, _, _, _, _, _)
\* difflib: j2len[j-1] + 1, the length of the common run that ends at
\* a[i], b[j] and starts no earlier than alo, blo
RunLen(a, b, i, j, alo, blo) ==
    IF i < alo \/ j < blo THEN 0
    ELSE IF a[i] # b[j] THEN 0
    ELSE 1 + RunLen(a, b, i - 1, j - 1, alo, blo)

\* difflib.SequenceMatcher.find_longest_match (no junk): the longest common
\* block of a[alo..ahi] and b[blo..bhi]; of the longest ones, the one that
\* starts earliest in a and, of those, earliest in b.  <<i, j, size>>
FindLongestMatch(a, b, alo, ahi, blo, bhi) ==
    LET ends == (alo..ahi) \X (blo..bhi)
        sz == [e \in ends |-> RunLen(a, b, e[1], e[2], alo, blo)]
        bestsize == Max({sz[e] : e \in ends} \cup {0})
        ei == Min({e[1] : e \in {f \in ends : sz[f] = bestsize}})
        ej == Min({e[2] : e \in {f \in ends : sz[f] = bestsize /\ f[1] = ei}})
    IN  IF bestsize = 0 THEN <<alo, blo, 0>>
        ELSE <<ei - bestsize + 1, ej - bestsize + 1, bestsize>>

RECURSIVE MatchCount(_, _, _, _, _, _)
\* difflib.SequenceMatcher.get_matching_blocks, summed: the longest block,
\* then recursively the pieces to its left and to its right
MatchCount(a, b, alo, ahi, blo, bhi) ==
    IF alo > ahi \/ blo > bhi THEN 0
    ELSE LET m == FindLongestMatch(a, b, alo, ahi, blo, bhi)
             i == m[1]
             j == m[2]
             k == m[3]
         IN  IF k = 0 THEN 0
             ELSE k + MatchCount(a, b, alo, i - 1, blo, j - 1)
                    + MatchCount(a, b, i + k, ahi, j + k, bhi)

\* _similarity_score: SequenceMatcher(None, s1, s2).ratio() = 2*M/T as the
\* fraction <<numerator, denominator>>; two empty strings have ratio 1.
SimilarityScore(str1, str2) ==
    LET s1 == Normalize(str1)
        s2 == Normalize(str2)
        t  == Len(s1) + Len(s2)
    IN  IF t = 0 THEN <<1, 1>>
        ELSE <<2 * MatchCount(s1, s2, 1, Len(s1), 1, Len(s2)), t>>

\* the threshold 0.85 of _find_duplicate, in hundredths
SIMILARITY_THRESHOLD == 85

\* a threshold test that also accepts a score of exactly 0.85
AtOrAboveThreshold(score) == score[1] * 100 >= SIMILARITY_THRESHOLD * score[2]

\* title_similarity > 0.85, on the exact fraction (the quotient of two small
\* integers is never within rounding distance of 0.85 without being 0.85)
AboveThreshold(score) == score[1] * 100 > SIMILARITY_THRESHOLD * score[2]

(***************************************************************************)
(* The titles the scrapers deliver in this model.                          *)
(***************************************************************************)
TitleStem ==
    <<"s","e","n","i","o","r"," ","p","y","t","h","o","n"," ","d","e","v">>
TitleDevops == TitleStem \o <<"o","p","s">>          \* senior python devops
TitleDevUk  == TitleStem \o <<" ","u","k">>          \* senior python dev uk
TitleDevok  == TitleStem \o <<"o","k"," ">>          \* "senior python devok "
TitleDevOps ==                                       \* Senior Python Dev-Ops!
    <<"S","e","n","i","o","r"," ","P","y","t","h","o","n"," ",
      "D","e","v","-","O","p","s","!">>
TitleAnalyst == <<"d","a","t","a"," ","a","n","a","l","y","s","t">>

TitleNA == <<"N", "/", "A">>       \* the "N/A" of the totaljobs adapter

Titles ==
    {TitleDevops, TitleDevUk, TitleDevok, TitleDevOps, TitleAnalyst, TitleNA}

\* the score of every pair of titles, computed once
TitleScores ==
    {<<p[1], p[2], SimilarityScore(p[1], p[2])>> : p \in Titles \X Titles}

\* self._similarity_score(job.title, row_dict['title'])
TitleSimilarity(t1, t2) ==
    (CHOOSE x \in TitleScores : x[1] = t1 /\ x[2] = t2)[3]

(***************************************************************************)
(* JobListing records and the rows of the jobs table.                      *)
(***************************************************************************)
\* what one scrape of a listing card carries besides title, company and
\* location: two scrapes of the same card may differ in all of it
Payload(v) ==
    IF v = 1
    THEN [description |-> "snippet 1", salary |-> NULL, job_type |-> NULL,
          posted_date |-> "1 day ago",
          source |-> "totaljobs", scraped_at |-> "t1",
          employment_type |-> NULL]
    ELSE [description |-> "snippet 2", salary |-> "50k", job_type |-> "contract",
          posted_date |-> "2 days ago",
          source |-> "reed", scraped_at |-> "t2",
          employment_type |-> "contract"]

\* the address of a listing's detail page; '' is the empty address
NoUrl == <<>>
JobUrl(title, company, location) == <<"https://jobs", company, location, title>>

\* the JobListing dataclass
JobListing(title, company, location, v) ==
    [title |-> title, company |-> company, location |-> location,
     description |-> Payload(v).description, salary |-> Payload(v).salary,
     job_type |-> Payload(v).job_type, posted_date |-> Payload(v).posted_date,
     url |-> JobUrl(title, company, location),
     source |-> Payload(v).source,
     scraped_at |-> Payload(v).scraped_at,
     employment_type |-> Payload(v).employment_type]

\* the records the scrapers hand to insert_job
Incoming ==
    { JobListing(TitleDevops, "acme", "remote", 1),
      JobListing(TitleDevops, "acme", "remote", 2),
      JobListing(TitleDevUk, "acme", "remote", 1),
      JobListing(TitleDevok, "acme", "remote", 2),
      JobListing(TitleDevOps, "acme", "remote", 2),
      JobListing(TitleAnalyst, "acme", "remote", 1),
      JobListing(TitleDevops, "globex", "remote", 1),
      JobListing(TitleDevops, "acme", "leeds", 1) }

NoJob == [none |-> TRUE]
NoRow == [id |-> 0]

\* CURRENT_TIMESTAMP at a write: the time of the operation in progress,
\* counted in operations
Timestamp == nops + 1

\* the columns of a freshly inserted row that the INSERT does not name take
\* their DEFAULT (created_at is left out of the model)
NewRow(id, job) ==
    [id |-> id, title |-> job.title, company |-> job.company,
     location |-> job.location, description |-> job.description,
     salary |-> job.salary, job_type |-> job.job_type,
     posted_date |-> job.posted_date, url |-> job.url, source |-> job.source,
     scraped_at |-> job.scraped_at, employment_type |-> job.employment_type,
     is_applied |-> FALSE, is_edited |-> FALSE, notes |-> NULL,
     status |-> "new", has_full_description |-> FALSE,
     cleaned_description |-> NULL, tags |-> NULL, entities |-> NULL,
     llm_processed |-> FALSE, updated_at |-> Timestamp]

RowById(rows, id) == CHOOSE r \in rows : r.id = id

\* a table without the UNIQUE constraint
KeyNeverTaken(rows, id, company, title, location) == FALSE

\* UNIQUE(company, title, location): some row other than `id` holds the key
KeyTaken(rows, id, company, title, location) ==
    \E r \in rows : /\ r.id # id
                    /\ r.company = company
                    /\ r.title = title
                    /\ r.location = location

\* the comparison of _find_duplicate, line 232
IsDuplicateTitle(t1, t2) == AboveThreshold(TitleSimilarity(t1, t2))

\* the rows _find_duplicate selects and accepts
Candidates(job, rows) ==
    {r \in rows : /\ r.company = job.company
                  /\ r.location = job.location
                  /\ IsDuplicateTitle(job.title, r.title)}

\* a lookup that leaves rows with the very same title to the UNIQUE constraint
FindDuplicateSkippingExact(job, rows) ==
    LET c == {r \in Candidates(job, rows) : r.title # job.title}
    IN  IF c = {} THEN NoRow
        ELSE LET r == CHOOSE x \in c : \A y \in c : x.id <= y.id
             IN  [id |-> r.id, title |-> r.title, company |-> r.company,
                  location |-> r.location, is_edited |-> r.is_edited]

\* _find_duplicate: the first candidate in rowid order, as the row_dict of
\* the SELECT, or None
FindDuplicate(job, rows) ==
    LET c == Candidates(job, rows)
    IN  IF c = {} THEN NoRow
        ELSE LET r == CHOOSE x \in c : \A y \in c : x.id <= y.id
             IN  [id |-> r.id, title |-> r.title, company |-> r.company,
                  location |-> r.location, is_edited |-> r.is_edited]

MsgSkippedEdited == "Skipped (duplicate of edited entry)"
MsgUpdated       == "Updated existing duplicate"
MsgAdded         == "Added new job"
MsgExact         == "Duplicate (exact match)"

\* the UPDATE of insert_job, lines 251-268, on the row it names
Refreshed(r, job) ==
    [r EXCEPT !.title = job.title, !.description = job.description,
              !.salary = job.salary, !.job_type = job.job_type,
              !.posted_date = job.posted_date, !.url = job.url,
              !.source = job.source, !.scraped_at = job.scraped_at,
              !.employment_type = job.employment_type,
              !.updated_at = Timestamp]

\* a lookup result that is never treated as user-edited
DuplicateNeverProtected(dup) == FALSE

\* `if duplicate['is_edited']`, line 246
DuplicateIsProtected(dup) == dup.is_edited

\* insert_job after the lookup returned `dup`, on the table as it is when
\* the write is executed: the new table, the new id counter, the result
InsertWrite(job, dup, rows, nid) ==
    IF dup # NoRow
    THEN IF DuplicateIsProtected(dup)
         THEN [rows |-> rows, nid |-> nid, ret |-> <<FALSE, MsgSkippedEdited>>]
         ELSE IF ~ \E r \in rows : r.id = dup.id
         THEN [rows |-> rows, nid |-> nid, ret |-> <<TRUE, MsgUpdated>>]
         ELSE LET r == RowById(rows, dup.id)
              IN  IF KeyTaken(rows, r.id, r.company, job.title, r.location)
                  THEN \* sqlite3.IntegrityError, line 286
                       [rows |-> rows, nid |-> nid, ret |-> <<FALSE, MsgExact>>]
                  ELSE [rows |-> (rows \ {r}) \cup {Refreshed(r, job)},
                        nid |-> nid, ret |-> <<TRUE, MsgUpdated>>]
    ELSE IF KeyTaken(rows, 0, job.company, job.title, job.location)
         THEN \* INSERT OR IGNORE: the conflicting row is kept, nothing raised
              [rows |-> rows, nid |-> nid, ret |-> <<TRUE, MsgAdded>>]
         ELSE [rows |-> rows \cup {NewRow(nid, job)}, nid |-> nid + 1,
               ret |-> <<TRUE, MsgAdded>>]


(***************************************************************************)
(* The other writers of the jobs table.                                    *)
(***************************************************************************)
\* the field edits the CRUD layer passes to update_job
UserUpdates ==
    { [title |-> TitleDevok],
      [description |-> "text typed by the user"],
      [notes |-> "call back", salary |-> "60k"],
      [is_edited |-> FALSE] }

\* the edit form sent with neither notes nor salary
NoUpdates == [f \in {} |-> NULL]

ValidStatuses ==
    {"new", "interested", "applied", "interviewing", "offer", "rejected",
     "archived"}

\* the statuses the CRUD layer passes to set_status in this model
StatusInputs == {"applied", "bogus"}

\* an UPDATE that leaves the flag to the caller's fields
EditedWithoutFlag(r, updates) ==
    [f \in DOMAIN r |->
        IF f = "updated_at" THEN Timestamp
        ELSE IF f \in DOMAIN updates THEN updates[f]
        ELSE r[f]]

\* UPDATE jobs SET <updates>, is_edited = 1, updated_at = <now> WHERE id = ?
\* (of two assignments to one column the rightmost counts)
Edited(r, updates) ==
    [f \in DOMAIN r |->
        IF f = "is_edited" THEN TRUE
        ELSE IF f = "updated_at" THEN Timestamp
        ELSE IF f \in DOMAIN updates THEN updates[f]
        ELSE r[f]]

\* update_job: the new table and the returned flag; a UNIQUE violation, and
\* the syntax error of an UPDATE without fields, is a sqlite3.Error and
\* leaves the table as it was
UpdateJobResult(rows, id, updates) ==
    LET r == RowById(rows, id)
        n == Edited(r, updates)
    IN  IF \/ DOMAIN updates = {}
           \/ KeyTaken(rows, id, n.company, n.title, n.location)
        THEN [rows |-> rows, ret |-> <<FALSE, "sqlite3.Error">>]
        ELSE [rows |-> (rows \ {r}) \cup {n}, ret |-> <<TRUE, "ok">>]

\* get_jobs_needing_descriptions(source=source)
JobsNeedingDescriptions(rows, source) ==
    {r \in rows : /\ ~ r.has_full_description
                  /\ r.url # NoUrl
                  /\ r.source = source}

\* what fetch_description returns: the page's full text, or none
FullText == "full description from the detail page"
FetchResults == {FullText, NULL}

\* update_job_description(job_id, description, mark_full)
WithDescription(r, description, mark_full) ==
    [r EXCEPT !.description = description,
              !.has_full_description = IF mark_full THEN TRUE ELSE @,
              !.updated_at = Timestamp]

\* get_jobs_needing_llm_processing
JobsNeedingLlm(rows) ==
    {r \in rows : /\ r.has_full_description
                  /\ ~ r.llm_processed
                  /\ r.description # NULL
                  /\ r.description # ""}

\* an AI write that also fills in the location its entities name
WithLlmDataAndLocation(r, cleaned, tags, entities) ==
    [r EXCEPT !.cleaned_description = cleaned, !.tags = tags,
              !.entities = entities, !.llm_processed = TRUE,
              !.location = "from entities", !.updated_at = Timestamp]

\* update_job_llm_data(job_id, cleaned_description, tags, entities)
WithLlmData(r, cleaned, tags, entities) ==
    [r EXCEPT !.cleaned_description = cleaned, !.tags = tags,
              !.entities = entities, !.llm_processed = TRUE,
              !.updated_at = Timestamp]

(***************************************************************************)
(* The store used from one connection: every operation is one step.        *)
(***************************************************************************)
MaxOps  == 4    \* operations in one run of the model
MaxJobs == 3    \* rows the table may hold

NoCall == [op |-> "none", job |-> NoJob, id |-> 0]

Connections == {1, 2}

StoreInit ==
    /\ jobs = {}
    /\ nextId = 1
    /\ call = NoCall
    /\ ret = <<TRUE, "">>
    /\ nops = 0
    /\ wpc = [w \in Connections |-> "idle"]
    /\ wjob = [w \in Connections |-> NoJob]
    /\ wdup = [w \in Connections |-> NoRow]
    /\ wret = [w \in Connections |-> <<TRUE, "">>]
    /\ raced = FALSE

connVars == <<wpc, wjob, wdup, wret, raced>>

\* insert_job(job), lookup and write in one step
InsertJob(job) ==
    /\ nops < MaxOps
    /\ LET dup == FindDuplicate(job, jobs)
           res == InsertWrite(job, dup, jobs, nextId)
       IN  /\ Cardinality(res.rows) <= MaxJobs
           /\ jobs' = res.rows
           /\ nextId' = res.nid
           /\ ret' = res.ret
    /\ call' = [op |-> "insert_job", job |-> job, id |-> 0]
    /\ nops' = nops + 1
    /\ UNCHANGED connVars
    /\ UNCHANGED notStore

\* update_job(job_id, updates) on an existing row
UpdateJob(id, updates) ==
    /\ nops < MaxOps
    /\ \E r \in jobs : r.id = id
    /\ LET res == UpdateJobResult(jobs, id, updates)
       IN  /\ jobs' = res.rows
           /\ ret' = res.ret
    /\ call' = [op |-> "update_job", job |-> NoJob, id |-> id]
    /\ nops' = nops + 1
    /\ UNCHANGED <<nextId, connVars>>
    /\ UNCHANGED notStore

\* set_status(job_id, status): an invalid status raises ValueError
SetStatus(id, status) ==
    /\ nops < MaxOps
    /\ \E r \in jobs : r.id = id
    /\ IF status \in ValidStatuses
       THEN /\ jobs' = (jobs \ {RowById(jobs, id)})
                          \cup {Edited(RowById(jobs, id), [status |-> status])}
            /\ ret' = <<TRUE, "ok">>
       ELSE /\ jobs' = jobs
            /\ ret' = <<FALSE, "ValueError">>
    /\ call' = [op |-> "set_status", job |-> NoJob, id |-> id]
    /\ nops' = nops + 1
    /\ UNCHANGED <<nextId, connVars>>
    /\ UNCHANGED notStore

\* mark_applied(job_id, applied)
MarkApplied(id, applied) ==
    /\ nops < MaxOps
    /\ \E r \in jobs : r.id = id
    /\ jobs' = (jobs \ {RowById(jobs, id)})
                  \cup {Edited(RowById(jobs, id), [is_applied |-> applied])}
    /\ ret' = <<TRUE, "ok">>
    /\ call' = [op |-> "mark_applied", job |-> NoJob, id |-> id]
    /\ nops' = nops + 1
    /\ UNCHANGED <<nextId, connVars>>
    /\ UNCHANGED notStore

\* scrape_source, second pass, for one job of the list: the fetch, then
\* update_job_description on the first row that has the job's url, with the
\* fetched text or, when the fetch returned none, the text the job had
BackfillDescription(job, fetched) ==
    /\ nops < MaxOps
    /\ job \in JobsNeedingDescriptions(jobs, "totaljobs")
    /\ LET description == IF fetched # NULL THEN fetched ELSE job.description
           hits == {r \in jobs : r.url = job.url}
           row == CHOOSE r \in hits : \A x \in hits : r.id <= x.id
       IN  /\ jobs' = (jobs \ {row})
                         \cup {WithDescription(row, description, TRUE)}
           /\ call' = [op |-> "update_job_description", job |-> NoJob,
                       id |-> row.id]
    /\ ret' = <<TRUE, "ok">>
    /\ nops' = nops + 1
    /\ UNCHANGED <<nextId, connVars>>
    /\ UNCHANGED notStore

\* update_job_llm_data on a row the AI stage selected
UpdateJobLlmData(id) ==
    /\ nops < MaxOps
    /\ \E r \in JobsNeedingLlm(jobs) : r.id = id
    /\ jobs' = (jobs \ {RowById(jobs, id)})
                  \cup {WithLlmData(RowById(jobs, id), "cleaned text",
                                    "[tags]", "{entities}")}
    /\ ret' = <<TRUE, "ok">>
    /\ call' = [op |-> "update_job_llm_data", job |-> NoJob, id |-> id]
    /\ nops' = nops + 1
    /\ UNCHANGED <<nextId, connVars>>
    /\ UNCHANGED notStore

Ids == 1..MaxJobs

StoreNext ==
    \/ \E job \in Incoming : InsertJob(job)
    \/ \E id \in Ids, u \in UserUpdates \cup {NoUpdates} : UpdateJob(id, u)
    \/ \E id \in Ids, st \in StatusInputs : SetStatus(id, st)
    \/ \E id \in Ids : MarkApplied(id, TRUE)
    \/ \E job \in jobs, f \in FetchResults : BackfillDescription(job, f)
    \/ \E id \in Ids : UpdateJobLlmData(id)


(***************************************************************************)
(* Properties of the store used from one connection.                       *)
(***************************************************************************)
\* insert_jobs_batch counts these results as skipped
IsSkipped(r) == r[2] \in {MsgSkippedEdited, MsgExact}

\* the results that report the record as a duplicate of a stored row
DuplicateOutcomes == {MsgUpdated, MsgSkippedEdited, MsgExact}

IsInsertStep == call'.op = "insert_job" /\ nops' = nops + 1

\* C1 as stated: an insert of a record that matches an edited row leaves that
\* row as it is and reports a skipped outcome.
C1_EditProtectionAsStated ==
    [][IsInsertStep =>
         \A r \in jobs :
            (r.is_edited /\ r \in Candidates(call'.job, jobs))
               => (r \in jobs' /\ IsSkipped(ret'))]_dbVars

\* C1 as amended: an insert of a record that matches an edited row leaves
\* that row as it is; when no unedited matching row has a lower id, it
\* changes no row and reports "Skipped (duplicate of edited entry)".
C1_EditProtection ==
    [][IsInsertStep =>
         \A r \in jobs :
            (r.is_edited /\ r \in Candidates(call'.job, jobs))
               => /\ r \in jobs'
                  /\ (\A x \in Candidates(call'.job, jobs) :
                         x.id < r.id => x.is_edited)
                        => (jobs' = jobs /\ ret' = <<FALSE, MsgSkippedEdited>>)]_dbVars

\* an insert was skipped for an edited row whose title is not the record's
C1_Witness ==
    /\ call.op = "insert_job"
    /\ ret = <<FALSE, MsgSkippedEdited>>
    /\ \E r \in Candidates(call.job, jobs) :
          r.is_edited /\ r.title # call.job.title

\* the fields of a row that a user can set
UserFields(r) ==
    <<r.title, r.description, r.salary, r.url, r.employment_type, r.status,
      r.notes>>

PipelineOps == {"insert_job", "update_job_description", "update_job_llm_data"}

\* C2: no pipeline write (insert_job, update_job_description,
\* update_job_llm_data) changes a user-settable field of an edited row.
C2_EditsImmutable ==
    [][(call'.op \in PipelineOps /\ nops' = nops + 1) =>
         \A r \in jobs :
            r.is_edited =>
               \E n \in jobs' : n.id = r.id /\ UserFields(n) = UserFields(r)]_dbVars

\* C3: from an empty store, two inserts with the same company and location
\* leave one row when the similarity of the second title to the first is
\* above 0.85 (= 17/20) and two rows when it is 0.85 or less.
C3_DedupThreshold ==
    [][(/\ nops = 1
        /\ call.op = "insert_job"
        /\ IsInsertStep
        /\ call'.job.company = call.job.company
        /\ call'.job.location = call.job.location) =>
         LET s == SimilarityScore(call'.job.title, call.job.title)
         IN  Cardinality(jobs') = (IF s[1] * 20 > 17 * s[2] THEN 1 ELSE 2)]_dbVars

\* two inserts from the empty store whose titles score exactly 0.85 left
\* two rows
C3_Witness ==
    /\ nops = 2
    /\ \E r1, r2 \in jobs :
          /\ r1.id = 1 /\ r2.id = 2
          /\ r1.company = r2.company /\ r1.location = r2.location
          /\ SimilarityScore(r2.title, r1.title) = <<34, 40>>

UniqueKeys ==
    \A r1, r2 \in jobs :
        (/\ r1.company = r2.company
         /\ r1.title = r2.title
         /\ r1.location = r2.location) => r1 = r2

\* the insert_job being executed found a row to refresh, and another row
\* already holds the key the refresh would give it
RefreshCollides ==
    /\ IsInsertStep
    /\ LET dup == FindDuplicate(call'.job, jobs)
       IN  /\ dup # NoRow
           /\ ~ dup.is_edited
           /\ KeyTaken(jobs, dup.id, dup.company, call'.job.title, dup.location)

\* C34: whatever the inserts, refreshes and user edits, no two stored rows
\* have the same (company, title, location); a refresh whose new title
\* would collide with another row is skipped as a duplicate and changes no
\* row.
C34_UniqueKeys ==
    /\ []UniqueKeys
    /\ [][RefreshCollides =>
            /\ jobs' = jobs
            /\ ret'[1] = FALSE
            /\ IsSkipped(ret')]_vars

\* a refresh was refused because another row held the record's key
C34_Witness ==
    /\ call.op = "insert_job"
    /\ ret = <<FALSE, MsgExact>>
    /\ \E r1, r2 \in jobs :
          /\ r1.id < r2.id
          /\ r2.title = call.job.title
          /\ r1.title # call.job.title
          /\ r1 \in Candidates(call.job, jobs)
\* no user edit has been stored
NoUserEdits == \A r \in jobs : ~ r.is_edited

\* C35: after any sequence of insert_job calls from the empty store, with
\* no user edits, no two stored rows with the same company and location
\* have titles whose similarity is above 0.85.
C35_NoSimilarRows ==
    NoUserEdits =>
        \A r1, r2 \in jobs :
            (/\ r1 # r2
             /\ r1.company = r2.company
             /\ r1.location = r2.location) => ~ IsDuplicateTitle(r1.title, r2.title)
\* the descriptions the listing cards carry
ListingSnippets == {Payload(v).description : v \in {1, 2}}

\* C36: a row flagged has_full_description holds a description that a
\* successful fetch produced: a fetch that returned none does not set the
\* flag, and a refresh by insert_job does not put a listing snippet into a
\* flagged row.
C36_FullFlagTruthful ==
    \A r \in jobs :
        r.has_full_description => r.description \notin ListingSnippets

(***************************************************************************)
(* The store used from two connections (one per concurrently scraped       *)
(* source): insert_job is a SELECT followed by a write, and statements of  *)
(* the other connection and of the CRUD layer may run between the two.     *)
(***************************************************************************)
Other(w) == CHOOSE x \in Connections : x # w

\* the records two sources scraped at the same time deliver
RaceIncoming ==
    { JobListing(TitleDevops, "acme", "remote", 1),
      JobListing(TitleDevops, "acme", "remote", 2),
      JobListing(TitleDevUk, "acme", "remote", 1),
      JobListing(TitleDevok, "acme", "remote", 2) }

\* insert_job, line 243: the lookup
Lookup(w, job) ==
    /\ nops < MaxOps
    /\ wpc[w] = "idle"
    /\ wpc' = [wpc EXCEPT ![w] = "looked"]
    /\ wjob' = [wjob EXCEPT ![w] = job]
    /\ wdup' = [wdup EXCEPT ![w] = FindDuplicate(job, jobs)]
    /\ raced' = (wpc[Other(w)] = "looked")
    /\ nops' = nops + 1
    /\ UNCHANGED <<jobs, nextId, call, ret, wret>>
    /\ UNCHANGED notStore

\* insert_job, lines 245-290: the write and the result
Write(w) ==
    /\ wpc[w] = "looked"
    /\ LET res == InsertWrite(wjob[w], wdup[w], jobs, nextId)
       IN  /\ Cardinality(res.rows) <= MaxJobs
           /\ jobs' = res.rows
           /\ nextId' = res.nid
           /\ ret' = res.ret
           /\ wret' = [wret EXCEPT ![w] = res.ret]
    /\ wpc' = [wpc EXCEPT ![w] = "idle"]
    /\ call' = [op |-> "insert_job", job |-> wjob[w], id |-> 0]
    /\ UNCHANGED <<nops, wjob, wdup, raced>>
    /\ UNCHANGED notStore

RaceNext ==
    \/ \E w \in Connections, job \in RaceIncoming : Lookup(w, job)
    \/ \E w \in Connections : Write(w)
    \/ \E id \in Ids, u \in UserUpdates \cup {NoUpdates} : UpdateJob(id, u)
    \/ \E id \in Ids, st \in StatusInputs : SetStatus(id, st)
    \/ \E id \in Ids : MarkApplied(id, TRUE)

SameKey(j1, j2) ==
    /\ j1.company = j2.company
    /\ j1.title = j2.title
    /\ j1.location = j2.location

\* both connections looked up a record with the same key, found nothing,
\* and then both wrote
RacedOnNewKey ==
    /\ \A w \in Connections : wpc[w] = "idle"
    /\ raced
    /\ \A w \in Connections : wdup[w] = NoRow
    /\ SameKey(wjob[1], wjob[2])

\* C5: after such a race one row holds the key, one connection got
\* "Added new job" and the other "Duplicate (exact match)".
C5_RaceCollapses ==
    RacedOnNewKey =>
       /\ Cardinality({r \in jobs : SameKey(r, wjob[1])}) = 1
       /\ {wret[1], wret[2]} = {<<TRUE, MsgAdded>>, <<FALSE, MsgExact>>}

\* connection w executes the write of its insert_job
Writes(w) == wpc[w] = "looked" /\ wpc'[w] = "idle"

\* C31: when a user edit of a row runs between the lookup and the write of
\* an insert_job of a matching record on another connection, the values the
\* user edit wrote are still stored when both have finished: the write of
\* an insert_job changes no user-settable field of a row that is edited.
C31_EditSurvivesInterleaving ==
    [][\A w \in Connections :
          Writes(w) =>
             \A r \in jobs :
                r.is_edited =>
                   \E n \in jobs' :
                      n.id = r.id /\ UserFields(n) = UserFields(r)]_vars


(***************************************************************************)
(* The AI key pool: KeyRotator of llm/processor.py, called by the worker   *)
(* threads of process_jobs_batch.                                          *)
(***************************************************************************)
\* the quota per key; 40 in the code, smaller here to keep the deques short
RATE_LIMIT_PER_KEY == 2
RATE_WINDOW_SECONDS == 60

MaxClock == 90           \* the model stops the clock here
ClockSteps == {30}       \* the clock advances by one of these
Workers == {"w1", "w2"}  \* worker threads of the pool
NoThread == "none"
NoKey == "none"

\* _load_keys: the names of the keys whose variable is set, in list order
KeyPools == {<<"key1">>, <<"key1", "key2">>}
KeyNames == {"key1", "key2"}

RECURSIVE CleanOldRequests(_, _)
\* _clean_old_requests: drop from the left while older than the window
CleanOldRequests(times, now) ==
    IF times # <<>> /\ now - Head(times) > RATE_WINDOW_SECONDS
    THEN CleanOldRequests(Tail(times), now)
    ELSE times

\* len(api_key.request_times) < RATE_LIMIT_PER_KEY
UnderQuota(times) == Len(times) < RATE_LIMIT_PER_KEY

\* deque(maxlen=RATE_LIMIT_PER_KEY).append: a full deque drops its oldest
DequeAppend(times, x) ==
    IF Len(times) >= RATE_LIMIT_PER_KEY
    THEN Tail(times) \o <<x>>
    ELSE times \o <<x>>

\* the keys the loops of get_available_key and get_wait_time visit: those up
\* to and including the first one under quota after cleaning
FirstAvailable(ks, rt, now) ==
    LET ok == {i \in 1..Len(ks) : UnderQuota(CleanOldRequests(rt[ks[i]], now))}
    IN  IF ok = {} THEN 0 ELSE Min(ok)

Visited(ks, rt, now) ==
    LET f == FirstAvailable(ks, rt, now)
    IN  IF f = 0 THEN {ks[i] : i \in 1..Len(ks)} ELSE {ks[i] : i \in 1..f}

\* the deques after such a loop: the visited ones are cleaned
AfterScan(ks, rt, now) ==
    [k \in KeyNames |->
        IF k \in Visited(ks, rt, now) THEN CleanOldRequests(rt[k], now)
        ELSE rt[k]]

\* get_wait_time, lines 84-98: 0 if a key is under quota, else the least
\* max(0, window - age of the oldest request) over the keys
WaitTime(ks, rt, now, current_time) ==
    IF FirstAvailable(ks, rt, now) # 0 THEN 0
    ELSE Min({ LET w == RATE_WINDOW_SECONDS
                          - (current_time - Head(CleanOldRequests(rt[ks[i]], now)))
               IN  IF w > 0 THEN w ELSE 0 : i \in 1..Len(ks) })

\* `with self.lock:` waits until no thread holds the lock
LockFree == lock = NoThread

\* what the last finished call returned, and the time it read on entry
NoResult == [op |-> "none", key |-> NoKey, wait |-> 0, at |-> 0]

KeyInit ==
    /\ clock = 0
    /\ keys \in KeyPools
    /\ request_times = [k \in KeyNames |-> <<>>]
    /\ lock = NoThread
    /\ tpc = [t \in Workers |-> "idle"]
    /\ top = [t \in Workers |-> "none"]
    /\ tnow = [t \in Workers |-> 0]
    /\ tkey = [t \in Workers |-> NoKey]
    /\ tres = NoResult
    /\ grants = [k \in KeyNames |-> <<>>]

\* time passes, between calls and between the two readings of time.time()
\* inside a call (line 70 and then line 63)
Tick(d) ==
    /\ clock + d <= MaxClock
    /\ clock' = clock + d
    /\ UNCHANGED <<keys, request_times, lock, tpc, top, tnow, tkey, tres, grants>>
    /\ UNCHANGED notKeys

KeyOps == {"get_available_key", "get_wait_time", "get_status"}

\* `with self.lock:` and `current_time = time.time()`
Enter(t, op) ==
    /\ tpc[t] = "idle"
    /\ LockFree
    /\ lock' = t
    /\ tpc' = [tpc EXCEPT ![t] = "entered"]
    /\ top' = [top EXCEPT ![t] = op]
    /\ tnow' = [tnow EXCEPT ![t] = clock]
    /\ UNCHANGED <<clock, keys, request_times, tkey, tres, grants>>
    /\ UNCHANGED notKeys

\* the loop over the keys up to the append: clean, test the quota
Scan(t) ==
    /\ tpc[t] = "entered"
    /\ tpc' = [tpc EXCEPT ![t] = "scanned"]
    /\ IF top[t] = "get_status"
       THEN request_times' =
               [k \in KeyNames |->
                   IF \E i \in 1..Len(keys) : keys[i] = k
                   THEN CleanOldRequests(request_times[k], clock)
                   ELSE request_times[k]]
       ELSE request_times' = AfterScan(keys, request_times, clock)
    /\ tkey' = [tkey EXCEPT ![t] =
                  LET f == FirstAvailable(keys, request_times, clock)
                  IN  IF f = 0 THEN NoKey ELSE keys[f]]
    /\ tres' = [op |-> top[t], key |-> NoKey,
                wait |-> IF top[t] = "get_wait_time"
                         THEN WaitTime(keys, request_times, clock, tnow[t])
                         ELSE 0,
                at |-> tnow[t]]
    /\ UNCHANGED <<clock, keys, lock, tnow, top, grants>>
    /\ UNCHANGED notKeys

\* the append of get_available_key, the return and the release of the lock
Commit(t) ==
    /\ tpc[t] = "scanned"
    /\ tpc' = [tpc EXCEPT ![t] = "idle"]
    /\ lock' = NoThread
    /\ IF top[t] = "get_available_key" /\ tkey[t] # NoKey
       THEN /\ request_times' =
                  [request_times EXCEPT ![tkey[t]] = DequeAppend(@, tnow[t])]
            /\ grants' = [grants EXCEPT ![tkey[t]] = Append(@, tnow[t])]
            /\ tres' = [tres EXCEPT !.key = tkey[t]]
       ELSE UNCHANGED <<request_times, grants, tres>>
    /\ top' = [top EXCEPT ![t] = "none"]
    /\ tnow' = [tnow EXCEPT ![t] = 0]
    /\ tkey' = [tkey EXCEPT ![t] = NoKey]
    /\ UNCHANGED <<clock, keys>>
    /\ UNCHANGED notKeys

KeyNext ==
    \/ \E d \in ClockSteps : Tick(d)
    \/ \E t \in Workers, op \in KeyOps : Enter(t, op)
    \/ \E t \in Workers : Scan(t)
    \/ \E t \in Workers : Commit(t)


(***************************************************************************)
(* Properties of the key pool.                                             *)
(***************************************************************************)
\* the grants of key k whose timestamp lies in the window (t - W, t]
GrantsInWindow(k, t) ==
    {i \in 1..Len(grants[k]) :
        /\ t - RATE_WINDOW_SECONDS < grants[k][i]
        /\ grants[k][i] <= t}

\* C6: for every key and every instant t, at most RATE_LIMIT_PER_KEY of the
\* grants get_available_key has issued for the key carry a timestamp in the
\* window (t - 60s, t], whatever the interleaving of the worker threads.
C6_QuotaNeverOverrun ==
    \A k \in KeyNames, t \in 0..MaxClock :
        Cardinality(GrantsInWindow(k, t)) <= RATE_LIMIT_PER_KEY

\* the grants of key k made less than a window before the instant t
RecentGrants(k, t) ==
    {i \in 1..Len(grants[k]) : t - grants[k][i] < RATE_WINDOW_SECONDS}

\* thread t returns from a call of op on a pool of one key
ReturnsFrom(t, op) ==
    /\ Len(keys) = 1
    /\ tpc[t] = "scanned"
    /\ top[t] = op
    /\ tpc'[t] = "idle"

\* C7: on a pool of one key, an acquisition with RATE_LIMIT_PER_KEY grants
\* less than a window old gets no key, and a wait time asked for then is
\* strictly positive; an acquisition with fewer such grants (the window has
\* elapsed since the earlier ones) gets the key.
C7_RateWindow ==
    [][\A t \in Workers :
          LET recent == Cardinality(RecentGrants(keys[1], tnow[t]))
          IN  /\ ReturnsFrom(t, "get_available_key") =>
                    IF recent >= RATE_LIMIT_PER_KEY
                    THEN tres'.key = NoKey
                    ELSE tres'.key = keys[1]
              /\ ReturnsFrom(t, "get_wait_time") =>
                    (recent >= RATE_LIMIT_PER_KEY => tres'.wait > 0)]_vars

\* C37: at every instant, if get_wait_time returns 0 then get_available_key
\* called at that instant returns a key, also when the oldest timestamp of a
\* full key is exactly one window old.
C37_WaitAgreesWithAcquisition ==
    (keys # <<>> /\ WaitTime(keys, request_times, clock, clock) = 0)
        => FirstAvailable(keys, request_times, clock) # 0

(***************************************************************************)
(* The scheduler: JobScheduler of scheduler/scheduler.py.  The loop thread *)
(* checks the three stages in order and then waits; every started run is a *)
(* thread of its own; run_task_now is called from request threads.         *)
(***************************************************************************)
Stages == <<"scrape", "descriptions", "llm">>
StageSet == {"scrape", "descriptions", "llm"}

StartTime == 1000000   \* time.time() when the scheduler is constructed
Horizon == 30          \* the model follows the loop for this many seconds
MaxThreads == 3        \* wrapper threads alive at a time
LOOP_WAIT_SECONDS == 10

\* SchedulerConfig
SchedulerConfig(enabled, minutes, stages) ==
    [enabled |-> enabled,
     scrape_interval_minutes |-> minutes[1],
     description_interval_minutes |-> minutes[2],
     llm_interval_minutes |-> minutes[3],
     scrape_enabled |-> "scrape" \in stages,
     description_enabled |-> "descriptions" \in stages,
     llm_enabled |-> "llm" \in stages]

DefaultMinutes == <<60, 15, 10>>

\* the configurations _load_config may find, each with the stages that
\* have an executor set
Setups ==
    { [config |-> SchedulerConfig(TRUE, DefaultMinutes, {"scrape", "llm"}),
       executors |-> StageSet],
      [config |-> SchedulerConfig(TRUE, <<1, 1, 1>>, StageSet),
       executors |-> {"descriptions", "llm"}],
      [config |-> SchedulerConfig(FALSE, DefaultMinutes, StageSet),
       executors |-> {}] }

\* the stages the request threads trigger by hand
TriggerStages == {"llm"}

\* a TaskState that falls back to Idle when a run completes
TaskStateIdleWhenDone(status, error) ==
    [status |-> IF status = "completed" THEN "idle" ELSE status, error |-> error]

\* the TaskState dataclass: its status and whether an error is recorded (the
\* timestamps, the progress counters and the message are left out)
TaskState(status, error) == [status |-> status, error |-> error]

\* run_task_now has not been called yet
NoTrigger == [task |-> "none", ret |-> FALSE]

\* last-run timestamps that start at the time of construction
RunAtConstruction == StartTime

\* the initial value of every entry of _last_runs
NeverRun == 0

SchedInit ==
    /\ walltime = StartTime
    /\ \E su \in Setups : config = su.config /\ executors = su.executors
    /\ task_states = [st \in StageSet |-> TaskState("idle", FALSE)]
    /\ last_runs = [st \in StageSet |-> NeverRun]
    /\ lpos = 1
    /\ lstart = {}
    /\ launched = {}
    /\ tret = NoTrigger
    /\ passes = FALSE
    /\ nstarted = [st \in StageSet |-> 0]
    /\ nrunning = [st \in StageSet |-> 0]

IntervalMinutes(st) ==
    CASE st = "scrape" -> config.scrape_interval_minutes
      [] st = "descriptions" -> config.description_interval_minutes
      [] st = "llm" -> config.llm_interval_minutes

StageEnabled(st) ==
    CASE st = "scrape" -> config.scrape_enabled
      [] st = "descriptions" -> config.description_enabled
      [] st = "llm" -> config.llm_enabled

\* a due test that also waits for every other stage to finish
ShouldRunTaskWhenAllQuiet(st) ==
    /\ StageEnabled(st)
    /\ \A o \in StageSet : task_states[o].status # "running"
    /\ walltime - last_runs[st] >= IntervalMinutes(st) * 60

\* a due test that leaves out the interval
ShouldRunTaskAnyTime(st) ==
    /\ StageEnabled(st)
    /\ task_states[st].status # "running"

\* _should_run_task
ShouldRunTask(st) ==
    /\ StageEnabled(st)
    /\ task_states[st].status # "running"
    /\ walltime - last_runs[st] >= IntervalMinutes(st) * 60

\* _last_runs stamped by the loop's check of a stage
LastRunsStampedAtCheck(st) == [last_runs EXCEPT ![st] = walltime]

\* _last_runs after _should_run_task and _run_task: neither writes it
LastRunsAfterCheck(st) == last_runs

\* _run_task: start a wrapper thread, unless the stage has no executor
RunTask(st) ==
    IF st \in executors
    THEN /\ nstarted' = [nstarted EXCEPT ![st] = @ + 1]
         /\ launched' = launched \cup {st}
    ELSE UNCHANGED <<nstarted, launched>>

Running == {o \in StageSet : task_states[o].status = "running"}

\* the wrapper threads that have not returned yet
RECURSIVE SumOver(_, _)
SumOver(f, S) ==
    IF S = {} THEN 0
    ELSE LET x == CHOOSE y \in S : TRUE IN f[x] + SumOver(f, S \ {x})

LiveThreads == SumOver(nstarted, StageSet) + SumOver(nrunning, StageSet)

\* one iteration of the for loop of _scheduler_loop
LoopCheck ==
    /\ lpos \in 1..Len(Stages)
    /\ LET st == Stages[lpos]
       IN  IF config.enabled /\ ShouldRunTask(st)
           THEN /\ st \in executors => LiveThreads < MaxThreads
                /\ RunTask(st)
                /\ lstart' = IF st \in executors
                             THEN lstart \cup {[stage |-> st, busy |-> Running]}
                             ELSE lstart
           ELSE UNCHANGED <<nstarted, lstart, launched>>
    /\ last_runs' = LastRunsAfterCheck(Stages[lpos])
    /\ lpos' = lpos + 1
    /\ UNCHANGED <<walltime, config, executors, task_states, tret, passes, nrunning>>
    /\ UNCHANGED notSched

\* self._stop_event.wait(10), and the next pass begins
LoopWait ==
    /\ lpos = Len(Stages) + 1
    /\ walltime + LOOP_WAIT_SECONDS <= StartTime + Horizon
    /\ walltime' = walltime + LOOP_WAIT_SECONDS
    /\ lpos' = 1
    /\ lstart' = {}
    /\ passes' = TRUE
    /\ UNCHANGED <<config, executors, task_states, last_runs, launched, tret,
                   nstarted, nrunning>>
    /\ UNCHANGED notSched

\* run_task_now(task_name) for a known stage: refused while Running
RunTaskNow(st) ==
    /\ IF task_states[st].status = "running"
       THEN /\ tret' = [task |-> st, ret |-> FALSE]
            /\ UNCHANGED <<nstarted, launched>>
       ELSE /\ st \in executors => LiveThreads < MaxThreads
            /\ RunTask(st)
            /\ tret' = [task |-> st, ret |-> TRUE]
    /\ UNCHANGED <<walltime, config, executors, task_states, last_runs, lpos, lstart,
                   passes, nrunning>>
    /\ UNCHANGED notSched

\* task_wrapper, lines 194-201: the thread marks the stage Running
ThreadBegin(st) ==
    /\ nstarted[st] > 0
    /\ nstarted' = [nstarted EXCEPT ![st] = @ - 1]
    /\ nrunning' = [nrunning EXCEPT ![st] = @ + 1]
    /\ task_states' = [task_states EXCEPT ![st] = TaskState("running", FALSE)]
    /\ UNCHANGED <<walltime, config, executors, last_runs, lpos, lstart,
                   launched, tret, passes>>
    /\ UNCHANGED notSched

\* task_wrapper, lines 210-226: the executor returned, or raised
ThreadEnd(st, ok) ==
    /\ nrunning[st] > 0
    /\ nrunning' = [nrunning EXCEPT ![st] = @ - 1]
    /\ IF ok
       THEN /\ task_states' = [task_states EXCEPT ![st] = TaskState("completed", @.error)]
            /\ last_runs' = [last_runs EXCEPT ![st] = walltime]
       ELSE /\ task_states' = [task_states EXCEPT ![st] = TaskState("failed", TRUE)]
            /\ UNCHANGED last_runs
    /\ UNCHANGED <<walltime, config, executors, lpos, lstart, launched, tret,
                   passes, nstarted>>
    /\ UNCHANGED notSched

SchedNext ==
    \/ LoopCheck
    \/ LoopWait
    \/ \E st \in TriggerStages : RunTaskNow(st)
    \/ \E st \in StageSet : ThreadBegin(st)
    \/ \E st \in StageSet, ok \in BOOLEAN : ThreadEnd(st, ok)

(***************************************************************************)
(* Properties of the scheduler.                                            *)
(***************************************************************************)
\* C8: for each stage, at most one run of its executor is in flight at any
\* time, whatever the interleaving of the loop's checks, the manual
\* triggers and the wrapper threads.
C8_NoDoubleRun == \A st \in StageSet : nrunning[st] <= 1

\* the loop's check of stage st is the step being taken
LoopChecks(st) ==
    /\ lpos \in 1..Len(Stages)
    /\ Stages[lpos] = st
    /\ lpos' = lpos + 1

\* stage st has an executor, is enabled and due, and is not Running
DueAndFree(st) ==
    /\ config.enabled
    /\ st \in executors
    /\ StageEnabled(st)
    /\ task_states[st].status # "running"
    /\ walltime - last_runs[st] >= IntervalMinutes(st) * 60

CadenceSetup ==
    /\ config.enabled
    /\ config.scrape_interval_minutes = 60
    /\ config.llm_interval_minutes = 10
    /\ config.scrape_enabled /\ config.llm_enabled
    /\ {"scrape", "llm"} \subseteq executors

\* C10 as stated: under that configuration the scrape stage has not run when
\* 10 minutes have passed, so it has not been started at any time up to then.
C10_CadenceAsStated ==
    (CadenceSetup /\ walltime <= StartTime + 600) => "scrape" \notin launched

\* C10: under that configuration the AI stage and the scrape stage have both
\* been started once the loop has finished its first pass, and so at every
\* later time, 10 minutes after start-up included.
C10_Cadence ==
    (CadenceSetup /\ passes) => {"scrape", "llm"} \subseteq launched

\* the first pass is over and both stages have been started
C10_Witness ==
    /\ CadenceSetup
    /\ passes
    /\ walltime > StartTime
    /\ {"scrape", "llm"} \subseteq launched

Status(st) == task_states[st].status

\* the changes of status the state machine of the specification allows
StatedTransitions ==
    { <<"idle", "running">>, <<"running", "completed">>, <<"running", "failed">>,
      <<"completed", "idle">>, <<"failed", "idle">> }

\* C11 as stated: the status of a stage changes only along Idle -> Running,
\* Running -> Completed, Running -> Failed and {Completed, Failed} -> Idle.
C11_StateMachineAsStated ==
    [][\A st \in StageSet :
          Status(st)' # Status(st) => <<Status(st), Status(st)'>> \in StatedTransitions]_vars

\* C11: the status of a stage changes only to Running, when a run of the
\* stage begins, and to Completed or Failed, when a run of the stage ends;
\* it never goes back to Idle.
C11_StateMachine ==
    [][\A st \in StageSet :
          Status(st)' # Status(st) =>
             \/ Status(st)' = "running" /\ nrunning'[st] = nrunning[st] + 1
             \/ /\ Status(st)' \in {"completed", "failed"}
                /\ nrunning'[st] = nrunning[st] - 1]_vars

\* a stage that completed a run before is Running again: it went from
\* Completed or Failed to Running
C11_Witness ==
    \E st \in StageSet :
       /\ Status(st) = "running"
       /\ last_runs[st] # NeverRun
       /\ nrunning[st] = 1

\* C12: run_task_now of a known stage returns true exactly when the stage is
\* not Running, and every call that returns true starts a run of the stage.
C12_TriggerAcceptance ==
    [][\A st \in StageSet :
          RunTaskNow(st) =>
             /\ tret'.ret = (Status(st) # "running")
             /\ tret'.ret => nstarted'[st] = nstarted[st] + 1]_vars

\* the loop's check of st started nothing, or run_task_now(st) was refused
SkippedOrRefused(st) ==
    \/ LoopChecks(st) /\ nstarted'[st] = nstarted[st]
    \/ RunTaskNow(st) /\ ~tret'.ret

\* C13: a check of the loop that does not start the stage, and a refused
\* manual trigger, leave the stage's last-run timestamp and TaskState as
\* they were.
C13_SkippedCheckKeepsClock ==
    [][\A st \in StageSet :
          SkippedOrRefused(st) =>
             /\ last_runs'[st] = last_runs[st]
             /\ task_states'[st] = task_states[st]]_vars

\* in a later pass the loop has checked the scrape stage, which is enabled
\* and has an executor, without starting it; and a trigger has been refused
C13_Witness ==
    /\ config.enabled /\ config.scrape_enabled /\ "scrape" \in executors
    /\ passes
    /\ lpos = 2
    /\ \A e \in lstart : e.stage # "scrape"
    /\ tret.task = "llm" /\ ~tret.ret

\* the loop's check of stage st starts a run of it
LoopStarts(st) == LoopChecks(st) /\ nstarted'[st] = nstarted[st] + 1

RunEnds(st) == nrunning'[st] = nrunning[st] - 1

\* C30: when a run of a stage ends, Completed or Failed, the last-run
\* timestamp of the stage is set to the time of that end, so that the loop
\* finds the stage due again only an interval later.
C30_IntervalAfterRun ==
    [][\A st \in StageSet :
          RunEnds(st) =>
             /\ last_runs'[st] = walltime
             /\ ~ (config.enabled /\ ShouldRunTask(st))']_vars

(***************************************************************************)
(* A scrape trigger: api_scrape of api/app.py runs one scrape_source task  *)
(* per source and gathers their results.                                   *)
(***************************************************************************)
Sources == {"reed", "totaljobs"}   \* two of AVAILABLE_SCRAPERS
MaxConfigs == 2                    \* enabled search configs of the trigger
Configs == 1..MaxConfigs
JobsPerSearch == 2                 \* listings a successful search returns

\* what scraper_class(db), init_browser and search_jobs can do
InitOutcomes == {"ok", "constructor_raises", "init_raises"}
\* (search_jobs: listings; a navigation that failed after its retries; a
\* navigation that got a 403; an exception)
SearchOutcomes == {"jobs", "nav_failed", "forbidden", "raises"}

NoResults == [none |-> TRUE]

\* a scrape_source task before it starts; faults is the record of what
\* went wrong, kept for the properties: pairs of a config (0 for a fault
\* outside the loop over the configs) and the kind of fault
NewTask ==
    [pc |-> "start", next |-> 1, found |-> 0, added |-> 0, error |-> FALSE,
     escaped |-> FALSE, scraped |-> {}, faults |-> {}, log |-> {}]

BatchInit ==
    /\ bsrc = [s \in Sources |-> NewTask]
    /\ bout = NoResults

\* db = JobDatabase(db_path), before the try: an exception leaves the task
Construct(s, ok) ==
    /\ bsrc[s].pc = "start"
    /\ bsrc' = [bsrc EXCEPT ![s] =
                  IF ok THEN [@ EXCEPT !.pc = "init"]
                  ELSE [@ EXCEPT !.pc = "done", !.escaped = TRUE,
                                 !.faults = @ \cup {<<0, "construct">>}]]
    /\ UNCHANGED bout
    /\ UNCHANGED notBatch

\* scraper_class(db, headless=True) and init_browser(); an exception goes
\* to the outer handler, and cleanup runs only if the scraper exists
InitBrowser(s, outcome) ==
    /\ bsrc[s].pc = "init"
    /\ bsrc' = [bsrc EXCEPT ![s] =
                  CASE outcome = "ok" -> [@ EXCEPT !.pc = "configs"]
                    [] outcome = "init_raises" ->
                          [@ EXCEPT !.pc = "cleanup", !.error = TRUE,
                                    !.faults = @ \cup {<<0, "init">>}]
                    [] outcome = "constructor_raises" ->
                          [@ EXCEPT !.pc = "done", !.error = TRUE,
                                    !.faults = @ \cup {<<0, "init">>}]]
    /\ UNCHANGED bout
    /\ UNCHANGED notBatch

\* where the task goes after its last config
AfterConfigs(s) == IF s = "totaljobs" THEN "second" ELSE "cleanup"

\* one iteration of `for config in configs`: search_jobs and log_scrape.
\* A failed navigation, a 403 included, makes search_jobs return the empty
\* list; log holds the ScrapeLog entries as pairs of config and success.
Search(s, outcome) ==
    /\ bsrc[s].pc = "configs"
    /\ LET c == bsrc[s].next
           n == IF outcome = "jobs" THEN JobsPerSearch ELSE 0
       IN  bsrc' = [bsrc EXCEPT ![s] =
                      [@ EXCEPT !.found = @ + n,
                                !.added = @ + n,
                                !.scraped = @ \cup {c},
                                !.faults = IF outcome = "jobs" THEN @
                                           ELSE @ \cup {<<c, outcome>>},
                                !.log = @ \cup {<<c, outcome # "raises">>},
                                !.next = c + 1,
                                !.pc = IF c = MaxConfigs THEN AfterConfigs(s)
                                       ELSE "configs"]]
    /\ UNCHANGED bout
    /\ UNCHANGED notBatch

\* the second pass of totaljobs; an exception goes to the outer handler
SecondPass(s, ok) ==
    /\ bsrc[s].pc = "second"
    /\ bsrc' = [bsrc EXCEPT ![s] =
                  IF ok THEN [@ EXCEPT !.pc = "cleanup"]
                  ELSE [@ EXCEPT !.pc = "cleanup", !.error = TRUE,
                                 !.faults = @ \cup {<<0, "second">>}]]
    /\ UNCHANGED bout
    /\ UNCHANGED notBatch

\* finally: scraper.cleanup() and db.close(); an exception leaves the task
Cleanup(s, ok) ==
    /\ bsrc[s].pc = "cleanup"
    /\ bsrc' = [bsrc EXCEPT ![s] =
                  IF ok THEN [@ EXCEPT !.pc = "done"]
                  ELSE [@ EXCEPT !.pc = "done", !.escaped = TRUE,
                                 !.faults = @ \cup {<<0, "cleanup">>}]]
    /\ UNCHANGED bout
    /\ UNCHANGED notBatch

\* the entry of final_results for one task: the exception, or the result
ResultOf(s) ==
    IF bsrc[s].escaped
    THEN [source |-> s, error |-> TRUE, counts |-> FALSE, found |-> 0, added |-> 0]
    ELSE [source |-> s, error |-> bsrc[s].error, counts |-> TRUE,
          found |-> bsrc[s].found, added |-> bsrc[s].added]

\* asyncio.gather(..., return_exceptions=True) and the loop over results
Gather ==
    /\ bout = NoResults
    /\ \A s \in Sources : bsrc[s].pc = "done"
    /\ bout' = [s \in Sources |-> ResultOf(s)]
    /\ UNCHANGED bsrc
    /\ UNCHANGED notBatch

BatchNext ==
    \/ \E s \in Sources, ok \in BOOLEAN : Construct(s, ok)
    \/ \E s \in Sources, o \in InitOutcomes : InitBrowser(s, o)
    \/ \E s \in Sources, o \in SearchOutcomes : Search(s, o)
    \/ \E s \in Sources, ok \in BOOLEAN : SecondPass(s, ok)
    \/ \E s \in Sources, ok \in BOOLEAN : Cleanup(s, ok)
    \/ Gather

\* the task of s got as far as its loop over the configs
ReachedConfigs(s) == bsrc[s].faults \cap {<<0, "construct">>, <<0, "init">>} = {}

\* the source failed: a fault outside the loop, or every config faulted
SourceFailed(s) ==
    \/ \E f \in bsrc[s].faults : f[1] = 0
    \/ \A c \in Configs : \E o \in SearchOutcomes : <<c, o>> \in bsrc[s].faults

\* C14: whatever faults occur, every source whose task reached its configs
\* has all of them scraped, and in the gathered results every failed source
\* carries an error while every source without a fault carries its counts
\* and no error.
C14_FaultIsolation ==
    bout # NoResults =>
       \A s \in Sources :
          /\ ReachedConfigs(s) => bsrc[s].scraped = Configs
          /\ SourceFailed(s) => bout[s].error
          /\ bsrc[s].faults = {} =>
                /\ ~bout[s].error
                /\ bout[s].counts
                /\ bout[s].found = MaxConfigs * JobsPerSearch

(***************************************************************************)
(* Navigation: BaseScraper.navigate_with_retry of scrapers/base.py, one    *)
(* call with the default max_retries.                                      *)
(***************************************************************************)
MAX_RETRIES == 3

\* what page.goto can give: a response with a status, no response, or an
\* exception
Responses == {"200", "429", "403", "404", "500", "none", "exception"}

\* how the actions after a 200 can go: human_like_scroll has no handler of
\* its own, human_like_mouse_move swallows its errors
PostLoads == {"ok", "scroll_raises", "mouse_raises"}

NavInit ==
    /\ npc = "idle"
    /\ nlog = <<>>
    /\ nposts = <<>>
    /\ nsleeps = <<>>
    /\ nret = "pending"

\* the call and its _rate_limit_delay, up to the first iteration
NavCall ==
    /\ npc = "idle"
    /\ npc' = "goto"
    /\ UNCHANGED <<nlog, nposts, nsleeps, nret>>
    /\ UNCHANGED notNav

\* a range that lets one more attempt through
ExhaustedLate(n) == n > MAX_RETRIES

\* `for attempt in range(max_retries)` has run out after n attempts
Exhausted(n) == n >= MAX_RETRIES

\* a 403 that is retried like any other status
NeverHardBlock(resp) == FALSE

\* `elif response and response.status == 403: return False`
IsHardBlock(resp) == resp = "403"

\* the wait of an attempt (0-based) that is retried
RetryWait(attempt, resp) == IF resp = "429" THEN (attempt + 1) * 30 ELSE 5

\* the end of an iteration that did not return: wait, then the next
\* iteration, or `return False` after the last one
Retry(resp) ==
    /\ nsleeps' = Append(nsleeps, RetryWait(Len(nlog), resp))
    /\ IF Exhausted(Len(nlog) + 1)
       THEN npc' = "done" /\ nret' = "false"
       ELSE npc' = "goto" /\ UNCHANGED nret

\* one page.goto and the branch on its response
Goto(resp) ==
    /\ npc = "goto"
    /\ nlog' = Append(nlog, resp)
    /\ CASE resp = "200" -> npc' = "postload" /\ UNCHANGED <<nsleeps, nret>>
         [] IsHardBlock(resp) ->
               npc' = "done" /\ nret' = "false" /\ UNCHANGED nsleeps
         [] OTHER -> Retry(resp)
    /\ UNCHANGED nposts
    /\ UNCHANGED notNav

\* after a 200: the pause, human_like_scroll(2), human_like_mouse_move();
\* an error of the scroll reaches the handler of the loop, which retries
PostLoad(outcome) ==
    /\ npc = "postload"
    /\ nposts' = Append(nposts, outcome)
    /\ IF outcome = "scroll_raises"
       THEN /\ nsleeps' = Append(nsleeps, 5)
            /\ IF Exhausted(Len(nlog))
               THEN npc' = "done" /\ nret' = "false"
               ELSE npc' = "goto" /\ UNCHANGED nret
       ELSE npc' = "done" /\ nret' = "true" /\ UNCHANGED nsleeps
    /\ UNCHANGED nlog
    /\ UNCHANGED notNav

NavNext ==
    \/ NavCall
    \/ \E resp \in Responses : Goto(resp)
    \/ \E o \in PostLoads : PostLoad(o)

\* C15: as soon as an attempt receives status 403 the call has returned
\* failure: the 403 is the last attempt, and the only waits are those of the
\* attempts before it.
C15_ForbiddenAborts ==
    \A i \in 1..Len(nlog) :
        nlog[i] = "403" =>
            /\ i = Len(nlog)
            /\ npc = "done"
            /\ nret = "false"
            /\ Len(nsleeps) = i - 1

\* a 403 on the second attempt, after a retried first one
C15_Witness ==
    /\ Len(nlog) = 2
    /\ nlog[1] = "429"
    /\ nlog[2] = "403"
    /\ nsleeps = <<30>>
    /\ nret = "false"

\* the call has returned after going through every attempt without a 200 or
\* a 403
RanOut ==
    /\ npc = "done"
    /\ \A i \in 1..Len(nlog) : nlog[i] \notin {"200", "403"}

NavBounded ==
    /\ Len(nlog) <= 3
    /\ nret \in {"pending", "true", "false"}
    /\ npc = "done" <=> nret # "pending"
    /\ RanOut => Len(nlog) = 3 /\ nret = "false"

\* C16: whatever the responses, the call makes at most 3 attempts, returns
\* (a value, never an exception), and returns failure when the attempts ran
\* out.
C16_RetryBound == []NavBounded /\ <>(npc = "done")

\* three attempts of different kinds, none of them a 200 or a 403
C16_Witness ==
    /\ RanOut
    /\ nlog = <<"429", "exception", "none">>
    /\ nsleeps = <<30, 5, 5>>
    /\ nret = "false"

\* C17: once an attempt has received 200 the call returns success on that
\* attempt, whatever the scroll and the pointer movement do: there is no
\* further attempt, no retry wait, and no failure.
C17_PostLoadBestEffort ==
    \A i \in 1..Len(nlog) :
        nlog[i] = "200" =>
            /\ i = Len(nlog)
            /\ Len(nsleeps) = i - 1
            /\ npc = "done" => nret = "true"

(***************************************************************************)
(* The description fetcher: DescriptionFetcher of                          *)
(* scrapers/description_fetcher.py.  A text is known by where it was found *)
(* and by its length; a page by the texts its parts hold.                  *)
(***************************************************************************)
BROWSER_TYPES == <<"chrome", "chrome120", "chrome110", "edge">>

\* the lengths a selector's elements and the JSON-LD description are tried
\* with, and those of the body text
TextLens == {200, 201}
BodyLens == {500, 501}

\* the selectors tried for a known site, in order: its own, then the generic
\* ones; an unknown site gets the generic ones only
SiteSelectors == <<"site">>
GenericSelectors == <<"generic1", "generic2">>
AllSelectors == {"site", "generic1", "generic2"}

Selectors(source) ==
    IF source = "none" THEN GenericSelectors
    ELSE SiteSelectors \o GenericSelectors

\* a page: the length of the cleaned description of its JobPosting metadata
\* (0: it has none), the text lengths of the elements each selector matches,
\* and the length of the body text left after stripping
Pages ==
    [ld : {0} \cup TextLens,
     sel : [AllSelectors -> SUBSET TextLens],
     body : BodyLens]

NoPage == [ld |-> 0, sel |-> [x \in AllSelectors |-> {}], body |-> 0]

Text(step, where, len) == [step |-> step, where |-> where, len |-> len]
NoText == Text("none", "none", 0)
Pending == Text("pending", "none", 0)

\* a floor that only a body-sized text passes
LongEnoughForBody(len) == len > 500

\* `if len(largest_text) > 200`, `if len(desc) > 200`
LongEnough(len) == len > 200

\* _extract_from_json_ld
ExtractFromJsonLd(page) ==
    IF page.ld # 0 /\ LongEnough(page.ld)
    THEN Text("json_ld", "none", page.ld)
    ELSE NoText

\* the longest of the matched elements' texts ("" when there is none)
LargestText(lens) ==
    IF lens = {} THEN 0 ELSE CHOOSE m \in lens : \A x \in lens : x <= m

\* the loop over the selectors: the first whose largest text is long enough
RECURSIVE FromSelectors(_, _)
FromSelectors(page, sels) ==
    IF sels = <<>> THEN NoText
    ELSE IF LongEnough(LargestText(page.sel[Head(sels)]))
         THEN Text("selector", Head(sels), LargestText(page.sel[Head(sels)]))
         ELSE FromSelectors(page, Tail(sels))

\* the fallback to the text of the whole body
FromBody(page) ==
    IF page.body > 500 THEN Text("body", "none", page.body) ELSE NoText

\* _extract_description
ExtractDescription(page, source) ==
    IF ExtractFromJsonLd(page) # NoText THEN ExtractFromJsonLd(page)
    ELSE IF FromSelectors(page, Selectors(source)) # NoText
         THEN FromSelectors(page, Selectors(source))
         ELSE FromBody(page)

FetchInit ==
    /\ fpc = "idle"
    /\ furl = ""
    /\ fsource = "none"
    /\ flog = <<>>
    /\ fpage = NoPage
    /\ fret = Pending

\* the call: no url gives None at once; the site is the one given or the
\* one the url shows
FetchCall(url, source) ==
    /\ fpc = "idle"
    /\ furl' = url
    /\ IF url = ""
       THEN fpc' = "done" /\ fret' = NoText /\ fsource' = source
       ELSE fpc' = "try" /\ fsource' = source /\ UNCHANGED fret
    /\ UNCHANGED <<flog, fpage>>
    /\ UNCHANGED notFetch

\* a failure that ends the call at once
GiveUpAfterFailure ==
    /\ fpc' = "done"
    /\ fret' = NoText

\* a profile got nothing: on to the next one, or None after the last
AfterFailure ==
    IF Len(flog) + 1 < Len(BROWSER_TYPES)
    THEN fpc' = "try" /\ UNCHANGED fret
    ELSE fpc' = "done" /\ fret' = NoText

\* one iteration of the loop over BROWSER_TYPES: the request raises, or
\* answers with another status, or with a 200 and a page
TryBrowser(outcome, page) ==
    /\ fpc = "try"
    /\ CASE outcome = "error" ->
               /\ flog' = Append(flog, "error")
               /\ AfterFailure
               /\ UNCHANGED fpage
         [] outcome = "status" ->
               /\ flog' = Append(flog, "status")
               /\ AfterFailure
               /\ UNCHANGED fpage
         [] outcome = "200" ->
               /\ fpage' = page
               /\ IF ExtractDescription(page, fsource) # NoText
                  THEN /\ flog' = Append(flog, "found")
                       /\ fpc' = "done"
                       /\ fret' = ExtractDescription(page, fsource)
                  ELSE /\ flog' = Append(flog, "empty")
                       /\ AfterFailure
    /\ UNCHANGED <<furl, fsource>>
    /\ UNCHANGED notFetch

FetchNext ==
    \/ \E url \in {"", "url"}, source \in {"none", "reed"} :
          FetchCall(url, source)
    \/ \E outcome \in {"error", "status"} : TryBrowser(outcome, NoPage)
    \/ \E page \in Pages : TryBrowser("200", page)

Failures == {"error", "status", "empty"}

\* C18: for a non-empty url the call returns none only after all the
\* profiles were tried; a profile that fails (network error, other status,
\* 200 with nothing extractable) is followed by the next profile; and the
\* first profile that yields a text ends the call with that text.
C18_ExhaustiveProfiles ==
    furl # "" =>
        /\ Len(flog) <= Len(BROWSER_TYPES)
        /\ (fpc = "done" /\ fret = NoText) =>
              /\ Len(flog) = Len(BROWSER_TYPES)
              /\ \A i \in 1..Len(flog) : flog[i] \in Failures
        /\ \A i \in 1..Len(flog) :
              /\ (flog[i] \in Failures /\ i < Len(BROWSER_TYPES)) =>
                    (fpc = "try" \/ Len(flog) > i)
              /\ flog[i] = "found" =>
                    /\ i = Len(flog)
                    /\ fpc = "done"
                    /\ fret # NoText
                    /\ fret = ExtractDescription(fpage, fsource)

\* one failure of each kind, then a text from the fourth profile
C18_Witness ==
    /\ furl # ""
    /\ flog = <<"error", "status", "empty", "found">>
    /\ fpc = "done"
    /\ fret.step = "selector"

\* a page with no JobPosting metadata, nothing under the site's own
\* selector, and something under a generic one
GenericOnly(page, source) ==
    /\ page.ld = 0
    /\ source = "none" \/ page.sel["site"] = {}
    /\ page.sel["generic1"] \cup page.sel["generic2"] # {}

\* what the extraction of the page of the last 200 gave
Extracted == IF flog[Len(flog)] = "found" THEN fret ELSE NoText

JustExtracted == flog # <<>> /\ flog[Len(flog)] \in {"found", "empty"}

\* C19 as stated: a page with only a generic selector match yields the text
\* of that match, never the body text or nothing, whatever its length.
C19_GenericMatchAsStated ==
    (JustExtracted /\ GenericOnly(fpage, fsource)) =>
        /\ Extracted.step = "selector"
        /\ Extracted.where \in {"generic1", "generic2"}
        /\ Extracted.len \in fpage.sel[Extracted.where]

\* C19: a page with only a generic selector match yields the largest text of
\* the first generic selector whose largest text is longer than 200
\* characters; when there is no such selector the match is passed over and
\* the result is that of the body fallback.
C19_GenericMatch ==
    (JustExtracted /\ GenericOnly(fpage, fsource)) =>
        LET g1 == LargestText(fpage.sel["generic1"])
            g2 == LargestText(fpage.sel["generic2"])
        IN  /\ g1 > 200 => Extracted = Text("selector", "generic1", g1)
            /\ (g1 <= 200 /\ g2 > 200) =>
                  Extracted = Text("selector", "generic2", g2)
            /\ (g1 <= 200 /\ g2 <= 200) =>
                  Extracted = FromBody(fpage)

\* the second generic selector holds the only long text, next to a short
\* match of the first and a body long enough for the fallback
C19_Witness ==
    /\ JustExtracted
    /\ GenericOnly(fpage, fsource)
    /\ fpage.sel["generic1"] = {200}
    /\ fpage.sel["generic2"] = {200, 201}
    /\ fpage.body = 501
    /\ fret = Text("selector", "generic2", 201)

(***************************************************************************)
(* The batch of the AI processor: JobDescriptionProcessor.process_job and  *)
(* process_jobs_batch of llm/processor.py, called with a progress callback  *)
(* that returns, as the scheduler's does.                                  *)
(* A description is known by its kind (a text, a null, or no such key in   *)
(* the record) and its length.                                             *)
(***************************************************************************)
MaxBatch == 2
MIN_DESCRIPTION_CHARS == 50

Desc(kind, len) == [kind |-> kind, len |-> len]

Descriptions ==
    {Desc("null", 0), Desc("absent", 0)}
        \cup {Desc("text", n) : n \in {0, 49, 50}}

Batches == UNION {[1..n -> Descriptions] : n \in 0..MaxBatch}

ProcInit ==
    /\ pjobs = <<>>
    /\ pres = <<>>
    /\ pkeyed = {}
    /\ ptallied = {}
    /\ stats = [processed |-> 0, failed |-> 0, skipped |-> 0]
    /\ ppc = "idle"
    /\ processed_count = 0
    /\ pcalls = <<>>

\* ThreadPoolExecutor(max_workers = min(MAX_WORKERS, len(jobs))) raises
\* ValueError for a size of 0
PoolStarts(n) == n > 0

\* the call: the pool is made and every job is submitted to it
SubmitBatch(batch) ==
    /\ ppc = "idle"
    /\ pjobs' = batch
    /\ pres' = [i \in 1..Len(batch) |-> "pending"]
    /\ ppc' = IF PoolStarts(Len(batch)) THEN "running" ELSE "raised"
    /\ UNCHANGED <<pkeyed, ptallied, stats, processed_count, pcalls>>
    /\ UNCHANGED notProc

\* `not description or len(description) < 50` of process_job, after
\* job.get('description', '')
TooShort(d) == d.kind # "text" \/ d.len < MIN_DESCRIPTION_CHARS

\* process_job in a worker: a short job returns None at once; any other
\* asks for a key and either waits for one beyond the maximum ("timeout",
\* _call_llm returns None) or makes the request, which gives a result,
\* nothing, or an error that escapes
ProcessJob(i, outcome) ==
    /\ ppc = "running"
    /\ i \in 1..Len(pjobs)
    /\ pres[i] = "pending"
    /\ IF TooShort(pjobs[i])
       THEN /\ outcome = "none"
            /\ pres' = [pres EXCEPT ![i] = "none"]
            /\ UNCHANGED pkeyed
       ELSE /\ pres' = [pres EXCEPT ![i] = outcome]
            /\ pkeyed' = pkeyed \cup {i}
    /\ UNCHANGED <<pjobs, ptallied, stats, ppc, processed_count, pcalls>>
    /\ UNCHANGED notProc

Bump(field) == [stats EXCEPT ![field] = @ + 1]

\* a tally that takes every job without a result for a skipped one
CountsNoResultAsSkipped(i) ==
    CASE pres[i] = "raised" -> "failed"
      [] pres[i] = "result" -> "processed"
      [] OTHER -> "skipped"

\* the count a completed future goes to: `len(job.get('description', ''))`
\* of a null description is a TypeError, which the handler counts as failed
CountsAs(i) ==
    CASE pres[i] = "raised" -> "failed"
      [] pres[i] = "result" -> "processed"
      [] pjobs[i].kind = "null" -> "failed"
      [] pjobs[i].len < MIN_DESCRIPTION_CHARS -> "skipped"
      [] OTHER -> "failed"

\* future.result() raises what the worker raised, before the completed
\* count is touched
ResultRaises(i) == pres[i] = "raised"

\* the count of one completed future, in the order as_completed yields
\* them: the completed count and the progress callback come first, and only
\* for a future whose result() returned
Tally(i) ==
    /\ ppc = "running"
    /\ i \in 1..Len(pjobs)
    /\ pres[i] # "pending"
    /\ i \notin ptallied
    /\ ptallied' = ptallied \cup {i}
    /\ IF ResultRaises(i)
       THEN UNCHANGED <<processed_count, pcalls>>
       ELSE /\ processed_count' = processed_count + 1
            /\ pcalls' = Append(pcalls, processed_count + 1)
    /\ stats' = Bump(CountsAs(i))
    /\ UNCHANGED <<pjobs, pres, pkeyed, ppc>>
    /\ UNCHANGED notProc

\* `return stats`, once every future has been counted
ReturnStats ==
    /\ ppc = "running"
    /\ ptallied = 1..Len(pjobs)
    /\ ppc' = "returned"
    /\ UNCHANGED <<pjobs, pres, pkeyed, ptallied, stats, processed_count,
                   pcalls>>
    /\ UNCHANGED notProc

ProcNext ==
    \/ \E batch \in Batches : SubmitBatch(batch)
    \/ \E i \in 1..MaxBatch, o \in {"result", "none", "raised", "timeout"} :
          ProcessJob(i, o)
    \/ \E i \in 1..MaxBatch : Tally(i)
    \/ ReturnStats

\* the jobs the spec calls short: no description, an empty one, or one
\* under 50 characters
ShortJobs ==
    {i \in 1..Len(pjobs) : pjobs[i].kind # "text" \/ pjobs[i].len < 50}

Returned == ppc = "returned"

\* C20: when the batch has returned, skipped counts every short job and
\* failed none of them, and no key was asked for on behalf of a short job.
C20_ShortJobsSkipped ==
    /\ pkeyed \cap ShortJobs = {}
    /\ Returned =>
          /\ stats.skipped = Cardinality(ShortJobs)
          /\ stats.failed <= Len(pjobs) - Cardinality(ShortJobs)

JobsWith(outcome) == {i \in 1..Len(pjobs) : pres[i] = outcome}

\* C21: a job whose wait for a key ran out is counted as failed, once, and
\* changes no other count; the other jobs of the batch still get their own
\* outcome, and the batch returns counts that cover every job.
C21_QuotaFaultIsolation ==
    /\ [][\A i \in 1..Len(pjobs) :
            (i \notin ptallied /\ i \in ptallied' /\ pres[i] = "timeout") =>
                stats' = [stats EXCEPT !.failed = @ + 1]]_vars
    /\ [](Returned =>
            /\ stats.processed + stats.failed + stats.skipped = Len(pjobs)
            /\ stats.processed = Cardinality(JobsWith("result"))
            /\ stats.failed >= Cardinality(JobsWith("timeout")))
    /\ [](JobsWith("timeout") # {} => ppc \in {"running", "returned"})

\* a returned batch of a job that timed out and a job that was processed
C21_Witness ==
    /\ Returned
    /\ pres = <<"timeout", "result">>
    /\ stats = [processed |-> 1, failed |-> 1, skipped |-> 0]

\* C22: for every list of records, the empty one included, the call returns
\* its counts; no exception reaches the caller.
C22_StructuredResult == ppc # "raised"

\* the counts given to the progress callback rise by steps of their own
StrictlyIncreasing(counts) ==
    \A k \in 1..(Len(counts) - 1) : counts[k] < counts[k + 1]

\* C38: when the batch has returned for a list that is not empty, the three
\* counts add up to the number of records, every record was counted once,
\* and the progress callback was given a strictly increasing completed
\* count whose last value is the number of records, in whatever order the
\* workers finished.
C38_BatchAccounting ==
    (Returned /\ pjobs # <<>>) =>
        /\ stats.processed + stats.failed + stats.skipped = Len(pjobs)
        /\ ptallied = 1..Len(pjobs)
        /\ StrictlyIncreasing(pcalls)
        /\ pcalls # <<>>
        /\ pcalls[Len(pcalls)] = Len(pjobs)

(***************************************************************************)
(* The AI write on the store.                                              *)
(***************************************************************************)
\* the step is an update_job_llm_data that changes at most the columns
\* `cols` of the row it names, and no other row
LlmWriteChangesOnly(cols) ==
    (call'.op = "update_job_llm_data" /\ nops' = nops + 1) =>
        \A r \in jobs :
            \E n \in jobs' :
                /\ n.id = r.id
                /\ r.id # call'.id => n = r
                /\ \A f \in DOMAIN r \ cols : n[f] = r[f]

\* C23 as stated: the AI write changes only cleaned_description, tags,
\* entities and the processed flag of the row.
C23_LlmWriteFrameAsStated ==
    [][LlmWriteChangesOnly({"cleaned_description", "tags", "entities",
                            "llm_processed"})]_dbVars

\* C23: the AI write changes only cleaned_description, tags, entities, the
\* processed flag and updated_at of the row; location, salary, title,
\* company and description are the same after it as before, whether known
\* or not.
C23_LlmWriteFrame ==
    [][LlmWriteChangesOnly({"cleaned_description", "tags", "entities",
                            "llm_processed", "updated_at"})]_dbVars

\* an AI write on a row whose location and salary are known
C23_Witness ==
    /\ call.op = "update_job_llm_data"
    /\ \E r \in jobs :
          /\ r.id = call.id
          /\ r.llm_processed
          /\ r.cleaned_description = "cleaned text"
          /\ r.location = "remote"
          /\ r.salary = "60k"
          /\ r.updated_at = nops

UserOps == {"update_job", "mark_applied", "set_status"}

\* C24: after a successful update_job, mark_applied or set_status on an
\* existing row the row has is_edited = true; a failed call changes nothing,
\* and set_status with a status outside the allowed set raises and changes
\* nothing.
C24_MutationSetsEdited ==
    [][/\ (call'.op \in UserOps /\ nops' = nops + 1) =>
            IF ret'[1]
            THEN \E n \in jobs' : n.id = call'.id /\ n.is_edited
            ELSE jobs' = jobs
       /\ \A id \in Ids, st \in StatusInputs \ ValidStatuses :
            SetStatus(id, st) => (ret' = <<FALSE, "ValueError">> /\ jobs' = jobs)
       /\ \A id \in Ids : UpdateJob(id, [is_edited |-> FALSE]) => ret'[1]]_dbVars

\* the applied toggle on a fresh row set the flag
C24_Witness ==
    /\ nops = 2
    /\ call.op = "mark_applied"
    /\ \E r \in jobs : r.id = call.id /\ r.is_applied /\ r.is_edited

\* C25: a 403 on a navigation of a source ends the scrape of that source:
\* no later config is attempted, the ScrapeLog entry of the config is
\* unsuccessful, and the source's result carries an error.
C25_BlockAbandonsSource ==
    \A s \in Sources, c \in Configs :
        <<c, "forbidden">> \in bsrc[s].faults =>
            /\ \A d \in bsrc[s].scraped : d <= c
            /\ <<c, FALSE>> \in bsrc[s].log
            /\ bout # NoResults => bout[s].error

(***************************************************************************)
(* The source adapters: search_jobs and _extract_job_data of               *)
(* scrapers/reed.py and scrapers/totaljobs.py, writing to the store        *)
(* through save_job.  A listing card is known by the elements it has.      *)
(***************************************************************************)
MaxPages == 2      \* the max_pages argument of the call

Adapters == {"reed", "totaljobs"}

Card(has_title, title, has_company, has_location, has_salary) ==
    [has_title |-> has_title, title |-> title, has_company |-> has_company,
     has_location |-> has_location, has_salary |-> has_salary]

Cards ==
    { Card(TRUE, TitleDevops, TRUE, TRUE, TRUE),
      Card(TRUE, TitleDevok, TRUE, TRUE, FALSE),
      Card(TRUE, TitleAnalyst, FALSE, FALSE, FALSE),
      Card(FALSE, <<>>, TRUE, TRUE, TRUE) }

\* the cards of one results page: none, one or two
ResultPages == UNION {[1..n -> Cards] : n \in {0, 1, 2}}

\* the fields of a card that has its elements
CardCompany == "acme"
CardLocation == "remote"
CardSalary == "50k"

\* the value an adapter gives a field without an element
MissingText(source) == IF source = "totaljobs" THEN "N/A" ELSE "Unknown"

\* totaljobs builds a record from a card without a title element; reed,
\* indeed and cvlibrary return None for it
KeepsUntitled(source) == source = "totaljobs"

\* _extract_job_data: the record of a card, or NoJob
ExtractJobData(source, card) ==
    IF ~ card.has_title /\ ~ KeepsUntitled(source) THEN NoJob
    ELSE [JobListing(IF card.has_title THEN card.title ELSE TitleNA,
                     IF card.has_company THEN CardCompany
                     ELSE MissingText(source),
                     IF card.has_location THEN CardLocation
                     ELSE MissingText(source),
                     IF source = "totaljobs" THEN 1 ELSE 2)
            EXCEPT !.salary = IF card.has_salary THEN CardSalary ELSE NULL,
                   !.url = IF card.has_title THEN @ ELSE NoUrl]

RECURSIVE ExtractAll(_, _)
\* the loop over the cards of a page: the records appended to jobs
ExtractAll(source, cards) ==
    IF cards = <<>> THEN <<>>
    ELSE LET job == ExtractJobData(source, Head(cards))
         IN  (IF job = NoJob THEN <<>> ELSE <<job>>)
                \o ExtractAll(source, Tail(cards))

RECURSIVE SaveAll(_, _, _)
\* save_job on each record in turn: the table and the id counter after
SaveAll(recs, rows, nid) ==
    IF recs = <<>> THEN [rows |-> rows, nid |-> nid]
    ELSE LET res == InsertWrite(Head(recs), FindDuplicate(Head(recs), rows),
                                rows, nid)
         IN  SaveAll(Tail(recs), res.rows, res.nid)

NoLog == [none |-> TRUE]

SearchInit ==
    /\ kpc = "idle"
    /\ ksource = "reed"
    /\ kpages = <<>>
    /\ kjobs = <<>>
    /\ kbefore = {}
    /\ kret = "pending"
    /\ klog = NoLog

\* the call and the navigation to the first page; a failed navigation
\* returns the empty list
SearchCall(source, loaded) ==
    /\ kpc = "idle"
    /\ ksource' = source
    /\ kbefore' = jobs
    /\ IF loaded
       THEN kpc' = "page" /\ UNCHANGED kret
       ELSE kpc' = "done" /\ kret' = "returned"
    /\ UNCHANGED <<kpages, kjobs, klog>>
    /\ UNCHANGED <<dbVars, notSearch>>

\* a wait that takes an empty page for a loaded one
NeverTimesOut(page) == FALSE

\* wait_for_selector finds no listing card within its timeout
TimesOut(page) == page = <<>>

\* one iteration of the loop over the pages: the wait for the cards, the
\* extraction and saving of each, and the step to the next page (`more`:
\* there is a next-page link and following it works)
ScrapePage(page, more) ==
    /\ kpc = "page"
    /\ kpages' = Append(kpages, page)
    /\ IF TimesOut(page)
       THEN /\ kpc' = "done"
            /\ kret' = "returned"
            /\ UNCHANGED <<kjobs, jobs, nextId>>
       ELSE LET recs == ExtractAll(ksource, page)
                res == SaveAll(recs, jobs, nextId)
            IN  /\ kjobs' = kjobs \o recs
                /\ jobs' = res.rows
                /\ nextId' = res.nid
                /\ IF more /\ Len(kpages) + 1 < MaxPages
                   THEN kpc' = "page" /\ UNCHANGED kret
                   ELSE kpc' = "done" /\ kret' = "returned"
    /\ UNCHANGED <<ksource, kbefore, klog>>
    /\ UNCHANGED <<call, ret, nops, connVars>>
    /\ UNCHANGED notSearch

\* the count scrape_source takes for the records added: len(jobs)
AddedCount(found, added) == found

\* scrape_source after search_jobs has returned: the counts of the result
\* and log_scrape(source_name, config.id, jobs_found, jobs_found)
LogScrape ==
    /\ kpc = "done"
    /\ klog = NoLog
    /\ LET jobs_found == Len(kjobs)
           jobs_added == AddedCount(jobs_found,
                                    Cardinality(jobs) - Cardinality(kbefore))
       IN  klog' = [found |-> jobs_found, added |-> jobs_added,
                    jobs_found |-> jobs_found, jobs_added |-> jobs_added]
    /\ UNCHANGED <<kpc, ksource, kpages, kjobs, kbefore, kret>>
    /\ UNCHANGED <<dbVars, notSearch>>

\* a row stored by an earlier scrape
SeedRow(job) ==
    /\ kpc = "idle"
    /\ nops = 0
    /\ InsertJob(job)

SearchNext ==
    \/ \E job \in Incoming : SeedRow(job)
    \/ \E a \in Adapters, loaded \in BOOLEAN : SearchCall(a, loaded)
    \/ \E page \in ResultPages, more \in BOOLEAN : ScrapePage(page, more)
    \/ LogScrape

(***************************************************************************)
(* The store connection of each scraping task of a run, for the two entry  *)
(* points: api_scrape of api/app.py and scrape_all of main.py.  A          *)
(* connection is a JobDatabase object, known by the order of its creation. *)
(***************************************************************************)
MaxTasks == 3      \* scraping tasks of one run

Tasks == 1..MaxTasks
EntryPoints == {"api", "cli"}

NoConnection == 0
\* the connection the entry point holds before it creates the tasks:
\* get_db() of the request, self.db of the orchestrator
OwnConnection == 1

IdleTask == [pc |-> "created", db |-> NoConnection]

RunInit ==
    /\ rentry = "none"
    /\ rconns = 0
    /\ rtask = [t \in Tasks |-> IdleTask]

\* the entry point up to asyncio.gather: its own connection and the tasks
StartRun(entry) ==
    /\ rentry = "none"
    /\ rentry' = entry
    /\ rconns' = OwnConnection
    /\ UNCHANGED rtask
    /\ UNCHANGED notRun

\* api/app.py: db = JobDatabase(db_path) in the task;
\* main.py: scraper_class(self.db, ...)
OpensConnection(entry) == entry = "api"

\* scrape_source up to its first await: the connection the scraper gets
BeginTask(t) ==
    /\ rentry \in EntryPoints
    /\ rtask[t].pc = "created"
    /\ IF OpensConnection(rentry)
       THEN /\ rconns' = rconns + 1
            /\ rtask' = [rtask EXCEPT ![t] = [pc |-> "init", db |-> rconns + 1]]
       ELSE /\ rconns' = rconns
            /\ rtask' = [rtask EXCEPT ![t] = [pc |-> "init", db |-> OwnConnection]]
    /\ UNCHANGED rentry
    /\ UNCHANGED notRun

\* the awaits of the task: init_browser, then search_jobs
AdvanceTask(t) ==
    /\ rtask[t].pc \in {"init", "search"}
    /\ rtask' = [rtask EXCEPT ![t].pc =
                    IF @ = "init" THEN "search" ELSE "cleanup"]
    /\ UNCHANGED <<rentry, rconns>>
    /\ UNCHANGED notRun

\* finally: scraper.cleanup(), and the return of the task
EndTask(t) ==
    /\ rtask[t].pc = "cleanup"
    /\ rtask' = [rtask EXCEPT ![t].pc = "done"]
    /\ UNCHANGED <<rentry, rconns>>
    /\ UNCHANGED notRun

\* asyncio.gather returns
GatherRun ==
    /\ rentry \in EntryPoints
    /\ \A t \in Tasks : rtask[t].pc = "done"
    /\ rentry' = "gathered"
    /\ UNCHANGED <<rconns, rtask>>
    /\ UNCHANGED notRun

RunNext ==
    \/ \E e \in EntryPoints : StartRun(e)
    \/ \E t \in Tasks : BeginTask(t)
    \/ \E t \in Tasks : AdvanceTask(t)
    \/ \E t \in Tasks : EndTask(t)
    \/ GatherRun

\* the task has started and not yet returned
InFlight(t) == rtask[t].pc \in {"init", "search", "cleanup"}

\* C28: in every scrape run no store connection is used by two scraping
\* tasks that are in flight at the same time.
C28_ConnectionOwnership ==
    \A t1, t2 \in Tasks :
        t1 # t2 /\ InFlight(t1) /\ InFlight(t2) => rtask[t1].db # rtask[t2].db

(***************************************************************************)
(* Pacing of the requests of one scraper session: _rate_limit_delay and    *)
(* navigate_with_retry of scrapers/base.py, with time in whole seconds.    *)
(***************************************************************************)
MIN_DELAY_BETWEEN_REQUESTS == 2

MaxCalls == 3          \* navigate calls of the session the model follows
SessionStart == 100    \* time.time() when the session makes its first call

\* random.uniform(0.5, 1.5), in whole seconds
Jitters == {1}
\* how long a call takes from its first attempt to its return: its page
\* loads and, when it retries, its back-off sleeps
CallDurations == {0, 1, 3, 35}
\* the time the session spends between the return of a call and the next call
Gaps == {0, 1}

NoTime == 0

PaceInit ==
    /\ qpc = "idle"
    /\ qnow = SessionStart
    /\ last_request_time = 0
    /\ qbegin = NoTime
    /\ qend = NoTime
    /\ qcalls = 0

\* the sleep of _rate_limit_delay, `since` seconds after last_request_time
Delay(since, jitter) ==
    IF since < MIN_DELAY_BETWEEN_REQUESTS
    THEN MIN_DELAY_BETWEEN_REQUESTS - since + jitter
    ELSE jitter

\* navigate_with_retry up to its first page.goto: _rate_limit_delay sleeps
\* and then stamps last_request_time
BeginNavigate(jitter) ==
    /\ qpc = "idle"
    /\ qcalls < MaxCalls
    /\ LET begin == qnow + Delay(qnow - last_request_time, jitter)
       IN  /\ qnow' = begin
           /\ last_request_time' = begin
           /\ qbegin' = begin
    /\ qpc' = "navigating"
    /\ qcalls' = qcalls + 1
    /\ UNCHANGED qend
    /\ UNCHANGED notPace

\* the attempts of the call, and what the session does until its next call
EndNavigate(duration, gap) ==
    /\ qpc = "navigating"
    /\ qend' = qnow + duration
    /\ qnow' = qnow + duration + gap
    /\ qpc' = "idle"
    /\ UNCHANGED <<last_request_time, qbegin, qcalls>>
    /\ UNCHANGED notPace

PaceNext ==
    \/ \E j \in Jitters : BeginNavigate(j)
    \/ \E d \in CallDurations, g \in Gaps : EndNavigate(d, g)

\* C32: the first attempt of a navigate call begins at least the minimum
\* delay after the call before it on the session returned, however long
\* that call took.
C32_InterRequestPacing ==
    (qpc = "navigating" /\ qend # NoTime) =>
        qbegin - qend >= MIN_DELAY_BETWEEN_REQUESTS

(***************************************************************************)
(* The wait for a key in _call_llm of llm/processor.py: one caller and a   *)
(* pool of one key that other workers also draw on.  Time is in half       *)
(* seconds, the longest sleep of one iteration.                            *)
(***************************************************************************)
MAX_WAIT_SECONDS == 120    \* max_wait_time
TicksPerSecond == 2        \* 1 / 0.5, the cap of wait_time

WindowTicks == RATE_WINDOW_SECONDS * TicksPerSecond
MaxWaitTicks == MAX_WAIT_SECONDS * TicksPerSecond

WaitStart == 1000    \* time.time() when _call_llm is entered
MaxSteals == 2       \* grants to other workers while the caller waits

\* how old the timestamps of the key are when the call begins
InitialAges == {0, WindowTicks - 1, WindowTicks}

\* the deques the key may hold then: oldest first, at most the quota
InitialTimes ==
    UNION { { q \in [1..n -> {WaitStart - a : a \in InitialAges}] :
                \A i \in 1..(n - 1) : q[i] <= q[i + 1] } :
            n \in 0..RATE_LIMIT_PER_KEY }

\* whether time.time() reads later after a sleep of 0 s
ClockMoves == {0, 1}

WaitIdle ==
    /\ cpc = "idle"
    /\ cnow = WaitStart
    /\ ctimes = <<>>
    /\ total_waited = 0
    /\ csteals = 0
    /\ cspun = FALSE

WaitInit ==
    /\ cpc = "idle"
    /\ cnow = WaitStart
    /\ ctimes \in InitialTimes
    /\ total_waited = 0
    /\ csteals = 0
    /\ cspun = FALSE

\* `(current_time - api_key.request_times[0]) > RATE_WINDOW_SECONDS`
Expired(t, now) == now - t > WindowTicks

RECURSIVE Cleaned(_, _)
\* _clean_old_requests on the deque of the key
Cleaned(times, now) ==
    IF times # <<>> /\ Expired(Head(times), now)
    THEN Cleaned(Tail(times), now)
    ELSE times

\* get_wait_time on the pool of one key
KeyWaitTime(times, now) ==
    LET c == Cleaned(times, now)
    IN  IF UnderQuota(c) THEN 0
        ELSE Max({0, WindowTicks - (now - Head(c))})

\* a loop that has no bound on its waits
KeepsWaitingAlways(waited) == TRUE

\* `while total_waited < max_wait_time`
KeepsWaiting(waited) == waited < MaxWaitTicks

\* _call_llm is entered: total_waited = 0
CallLlm ==
    /\ cpc = "idle"
    /\ cpc' = "acquire"
    /\ UNCHANGED <<cnow, ctimes, total_waited, csteals, cspun>>
    /\ UNCHANGED notWait

\* get_available_key: the key if it is under quota after cleaning
TryAcquire ==
    /\ cpc = "acquire"
    /\ LET c == Cleaned(ctimes, cnow)
       IN  IF UnderQuota(c)
           THEN ctimes' = DequeAppend(c, cnow) /\ cpc' = "granted"
           ELSE ctimes' = c /\ cpc' = "wait"
    /\ UNCHANGED <<cnow, total_waited, csteals, cspun>>
    /\ UNCHANGED notWait

\* the rest of the iteration: wait_time = min(get_wait_time(), 0.5), the
\* sleep, total_waited += wait_time, and the test of the while; after a
\* sleep of 0 s the clock reads the same or later (adv)
WaitForKey(adv) ==
    /\ cpc = "wait"
    /\ LET wait_time == Min({KeyWaitTime(ctimes, cnow), 1})
       IN  /\ ctimes' = Cleaned(ctimes, cnow)
           /\ cnow' = cnow + wait_time + (IF wait_time = 0 THEN adv ELSE 0)
           /\ total_waited' = total_waited + wait_time
           /\ cspun' = (cspun \/ wait_time = 0)
           /\ cpc' = IF KeepsWaiting(total_waited + wait_time)
                     THEN "acquire" ELSE "failed"
    /\ UNCHANGED csteals
    /\ UNCHANGED notWait

\* get_available_key of another worker takes the key
OtherWorkerAcquires ==
    /\ cpc \in {"acquire", "wait"}
    /\ csteals < MaxSteals
    /\ UnderQuota(Cleaned(ctimes, cnow))
    /\ ctimes' = DequeAppend(Cleaned(ctimes, cnow), cnow)
    /\ csteals' = csteals + 1
    /\ UNCHANGED <<cpc, cnow, total_waited, cspun>>
    /\ UNCHANGED notWait

WaitNext ==
    \/ CallLlm
    \/ TryAcquire
    \/ \E adv \in ClockMoves : WaitForKey(adv)
    \/ OtherWorkerAcquires

\* the wait loop has ended
WaitEnded == cpc \in {"granted", "failed"}

\* the call gives up only when its waits add up to the bound, and loops only
\* while they add up to less
WaitAccounted ==
    /\ cpc = "failed" => total_waited >= MaxWaitTicks
    /\ cpc \in {"acquire", "wait"} => total_waited < MaxWaitTicks
    /\ cpc = "granted" => Len(ctimes) > 0 /\ ctimes[Len(ctimes)] = cnow

\* C33: the wait for a key in _call_llm always ends, with a key or, once
\* the waits add up to 120 s, with the job abandoned; it does not go on
\* for ever without the sum growing, whatever the timestamps of the key,
\* one that is exactly a window old included.
C33_BoundedKeyWait == []WaitAccounted /\ <>WaitEnded

\* the call got the key after an iteration that slept 0 s on a timestamp
\* exactly one window old
C33_Witness ==
    /\ cpc = "granted"
    /\ cspun
    /\ total_waited = 0

(***************************************************************************)
(* The life of the scheduler loop: JobScheduler.start, stop and            *)
(* _scheduler_loop of scheduler/scheduler.py, called from several threads. *)
(* Each statement of start() and stop() is a step of its own: nothing in   *)
(* the two methods holds a lock.                                           *)
(***************************************************************************)
MaxLoopCalls == 3
Callers == 1..2
LoopIds == 1..MaxLoopCalls
NoLoop == 0

AtRest == [pc |-> "idle", target |-> NoLoop]

LoopInit ==
    /\ running = FALSE
    /\ stop_event = FALSE
    /\ loop_thread = NoLoop
    /\ loops = [l \in LoopIds |-> "unborn"]
    /\ callers = [c \in Callers |-> AtRest]
    /\ lcalls = 0

\* `if self._running: return` of start(): the call goes on when the flag
\* is down
GuardPasses(flag) == ~flag

\* start(): the test of _running
StartCall(c) ==
    /\ callers[c].pc = "idle"
    /\ lcalls < MaxLoopCalls
    /\ lcalls' = lcalls + 1
    /\ callers' = [callers EXCEPT ![c].pc =
                      IF GuardPasses(running) THEN "start_flag" ELSE "idle"]
    /\ UNCHANGED <<running, stop_event, loop_thread, loops>>
    /\ UNCHANGED notLoop

\* start(): self._running = True
StartSetsRunning(c) ==
    /\ callers[c].pc = "start_flag"
    /\ running' = TRUE
    /\ callers' = [callers EXCEPT ![c].pc = "start_clear"]
    /\ UNCHANGED <<stop_event, loop_thread, loops, lcalls>>
    /\ UNCHANGED notLoop

\* start(): self._stop_event.clear()
StartClearsEvent(c) ==
    /\ callers[c].pc = "start_clear"
    /\ stop_event' = FALSE
    /\ callers' = [callers EXCEPT ![c].pc = "start_thread"]
    /\ UNCHANGED <<running, loop_thread, loops, lcalls>>
    /\ UNCHANGED notLoop

\* start(): the loop thread is made, kept in self._thread, and started
StartSpawnsLoop(c) ==
    /\ callers[c].pc = "start_thread"
    /\ LET l == CHOOSE k \in LoopIds :
                   /\ loops[k] = "unborn"
                   /\ \A j \in LoopIds : loops[j] = "unborn" => k <= j
       IN /\ loops' = [loops EXCEPT ![l] = "testing"]
          /\ loop_thread' = l
    /\ callers' = [callers EXCEPT ![c].pc = "idle"]
    /\ UNCHANGED <<running, stop_event, lcalls>>
    /\ UNCHANGED notLoop

\* stop(): self._running = False
StopCall(c) ==
    /\ callers[c].pc = "idle"
    /\ lcalls < MaxLoopCalls
    /\ lcalls' = lcalls + 1
    /\ running' = FALSE
    /\ callers' = [callers EXCEPT ![c].pc = "stop_event"]
    /\ UNCHANGED <<stop_event, loop_thread, loops>>
    /\ UNCHANGED notLoop

\* stop(): self._stop_event.set(), then `if self._thread:`
StopSetsEvent(c) ==
    /\ callers[c].pc = "stop_event"
    /\ stop_event' = TRUE
    /\ callers' = [callers EXCEPT ![c] =
                      IF loop_thread = NoLoop
                      THEN AtRest
                      ELSE [pc |-> "stop_join", target |-> loop_thread]]
    /\ UNCHANGED <<running, loop_thread, loops, lcalls>>
    /\ UNCHANGED notLoop

\* stop(): self._thread.join(timeout=5) returns when the thread has ended,
\* or after five seconds; the five seconds run out only on a loop that is in
\* the middle of a pass, since a loop in wait(10) wakes as the event is set
StopJoins(c) ==
    /\ callers[c].pc = "stop_join"
    /\ loops[callers[c].target] \in {"ended", "ticking"}
    /\ callers' = [callers EXCEPT ![c] = AtRest]
    /\ UNCHANGED <<running, stop_event, loop_thread, loops, lcalls>>
    /\ UNCHANGED notLoop

\* _scheduler_loop: `while not self._stop_event.is_set()`
LoopTests(l) ==
    /\ loops[l] = "testing"
    /\ loops' = [loops EXCEPT ![l] = IF stop_event THEN "ended" ELSE "ticking"]
    /\ UNCHANGED <<running, stop_event, loop_thread, callers, lcalls>>
    /\ UNCHANGED notLoop

\* _scheduler_loop: the pass over the stages, which starts those that are due
LoopTicks(l) ==
    /\ loops[l] = "ticking"
    /\ loops' = [loops EXCEPT ![l] = "waiting"]
    /\ UNCHANGED <<running, stop_event, loop_thread, callers, lcalls>>
    /\ UNCHANGED notLoop

\* _scheduler_loop: self._stop_event.wait(10) returns, the event set or the
\* ten seconds over
LoopWakes(l) ==
    /\ loops[l] = "waiting"
    /\ loops' = [loops EXCEPT ![l] = "testing"]
    /\ UNCHANGED <<running, stop_event, loop_thread, callers, lcalls>>
    /\ UNCHANGED notLoop

LoopLifeNext ==
    \/ \E c \in Callers : StartCall(c)
    \/ \E c \in Callers : StartSetsRunning(c)
    \/ \E c \in Callers : StartClearsEvent(c)
    \/ \E c \in Callers : StartSpawnsLoop(c)
    \/ \E c \in Callers : StopCall(c)
    \/ \E c \in Callers : StopSetsEvent(c)
    \/ \E c \in Callers : StopJoins(c)
    \/ \E l \in LoopIds : LoopTests(l)
    \/ \E l \in LoopIds : LoopTicks(l)
    \/ \E l \in LoopIds : LoopWakes(l)

\* the loop threads that were started and have not ended
ActiveLoops == {l \in LoopIds : loops[l] \in {"testing", "ticking", "waiting"}}

\* C39: whatever calls of start() and stop() were made, and however their
\* steps interleave, at most one loop thread is active, and so no two loops
\* are in a pass over the stages at the same time.
C39_SingleSchedulerLoop ==
    /\ Cardinality(ActiveLoops) <= 1
    /\ Cardinality({l \in LoopIds : loops[l] = "ticking"}) <= 1

(***************************************************************************)
(* The specifications: one component runs, the others stay as constructed. *)
(***************************************************************************)
KeyIdle == KeyInit /\ keys = <<"key1">>
SchedIdle == SchedInit /\ ~config.enabled

StoreSpecInit == StoreInit /\ KeyIdle /\ SchedIdle /\ BatchInit /\ NavInit /\ FetchInit /\ ProcInit /\ SearchInit /\ RunInit /\ PaceInit /\ WaitIdle /\ LoopInit
StoreSpec == StoreSpecInit /\ [][StoreNext]_vars

RaceSpec == StoreSpecInit /\ [][RaceNext]_vars

KeySpecInit == StoreInit /\ KeyInit /\ SchedIdle /\ BatchInit /\ NavInit /\ FetchInit /\ ProcInit /\ SearchInit /\ RunInit /\ PaceInit /\ WaitIdle /\ LoopInit
KeySpec == KeySpecInit /\ [][KeyNext]_vars

SchedSpecInit == StoreInit /\ KeyIdle /\ SchedInit /\ BatchInit /\ NavInit /\ FetchInit /\ ProcInit /\ SearchInit /\ RunInit /\ PaceInit /\ WaitIdle /\ LoopInit
SchedSpec == SchedSpecInit /\ [][SchedNext]_vars

BatchSpecInit == StoreInit /\ KeyIdle /\ SchedIdle /\ BatchInit /\ NavInit /\ FetchInit /\ ProcInit /\ SearchInit /\ RunInit /\ PaceInit /\ WaitIdle /\ LoopInit
BatchSpec == BatchSpecInit /\ [][BatchNext]_vars

NavSpecInit == StoreInit /\ KeyIdle /\ SchedIdle /\ BatchInit /\ NavInit /\ FetchInit /\ ProcInit /\ SearchInit /\ RunInit /\ PaceInit /\ WaitIdle /\ LoopInit
NavSpec == NavSpecInit /\ [][NavNext]_vars

FetchSpecInit == StoreInit /\ KeyIdle /\ SchedIdle /\ BatchInit /\ NavInit /\ FetchInit /\ ProcInit /\ SearchInit /\ RunInit /\ PaceInit /\ WaitIdle /\ LoopInit
FetchSpec == FetchSpecInit /\ [][FetchNext]_vars

ProcSpecInit == StoreInit /\ KeyIdle /\ SchedIdle /\ BatchInit /\ NavInit /\ FetchInit /\ ProcInit /\ SearchInit /\ RunInit /\ PaceInit /\ WaitIdle /\ LoopInit
ProcSpec == ProcSpecInit /\ [][ProcNext]_vars

RECURSIVE AllCards(_)
\* the cards of a list of pages, in order
AllCards(pages) ==
    IF pages = <<>> THEN <<>> ELSE Head(pages) \o AllCards(Tail(pages))

\* the cards the call has been shown
CardsSeen == AllCards(kpages)

\* C26: for every adapter a card without a title element yields no record,
\* returned or stored, and a card with a title but no company, location or
\* salary yields a record with "Unknown" for company and location and null
\* for salary.
C26_MissingTitleDropsRecord ==
    /\ \A i \in 1..Len(CardsSeen) :
          LET card == CardsSeen[i]
              job == ExtractJobData(ksource, card)
          IN  IF ~ card.has_title THEN job = NoJob
              ELSE /\ job # NoJob
                   /\ ~ card.has_company => job.company = "Unknown"
                   /\ ~ card.has_location => job.location = "Unknown"
                   /\ ~ card.has_salary => job.salary = NULL
    /\ Len(kjobs) = Cardinality({i \in 1..Len(CardsSeen) : CardsSeen[i].has_title})
    /\ \A r \in jobs : r.title # TitleNA

\* the call ended on a page without listing cards
EndOfResults ==
    kpc = "done" /\ kpages # <<>> /\ kpages[Len(kpages)] = <<>>

\* the pages before the last one shown
EarlierPages == SubSeq(kpages, 1, Len(kpages) - 1)

\* a page without cards ends the pagination, and the call returns the
\* records of the pages before it without raising
StopsAtEmptyPage ==
    /\ \A k \in 1..Len(kpages) :
          kpages[k] = <<>> => k = Len(kpages) /\ kpc = "done"
    /\ EndOfResults =>
          /\ kret = "returned"
          /\ kjobs = ExtractAll(ksource, AllCards(EarlierPages))

\* the rows the call added to the table
RowsAdded == Cardinality(jobs) - Cardinality(kbefore)

\* the cards shown are distinct cards, each with a title
DistinctCards ==
    /\ \A i, j \in 1..Len(CardsSeen) : i # j => CardsSeen[i] # CardsSeen[j]
    /\ \A i \in 1..Len(CardsSeen) : CardsSeen[i].has_title

\* the duplicate rule of the store takes the two for the same posting
SamePosting(a, b) ==
    /\ a.company = b.company
    /\ a.location = b.location
    /\ IsDuplicateTitle(a.title, b.title) \/ IsDuplicateTitle(b.title, a.title)

\* no returned record is the same posting as another or as a row stored
\* before the call
DistinctPostings ==
    /\ \A i, j \in 1..Len(kjobs) : i # j => ~ SamePosting(kjobs[i], kjobs[j])
    /\ \A i \in 1..Len(kjobs) : \A r \in kbefore : ~ SamePosting(kjobs[i], r)

C40_AddedCountTruthful ==
    klog # NoLog =>
        /\ klog.added = RowsAdded
        /\ klog.jobs_added = RowsAdded
        /\ klog.jobs_found = Len(kjobs)

SearchSpecInit == StoreInit /\ KeyIdle /\ SchedIdle /\ BatchInit /\ NavInit /\ FetchInit /\ ProcInit /\ SearchInit /\ RunInit /\ PaceInit /\ WaitIdle /\ LoopInit
SearchSpec == SearchSpecInit /\ [][SearchNext]_vars

RunSpecInit == StoreInit /\ KeyIdle /\ SchedIdle /\ BatchInit /\ NavInit /\ FetchInit /\ ProcInit /\ SearchInit /\ RunInit /\ PaceInit /\ WaitIdle /\ LoopInit
RunSpec == RunSpecInit /\ [][RunNext]_vars

PaceSpecInit == StoreInit /\ KeyIdle /\ SchedIdle /\ BatchInit /\ NavInit /\ FetchInit /\ ProcInit /\ SearchInit /\ RunInit /\ PaceInit /\ WaitIdle /\ LoopInit
PaceSpec == PaceSpecInit /\ [][PaceNext]_vars

WaitSpecInit == StoreInit /\ KeyIdle /\ SchedIdle /\ BatchInit /\ NavInit /\ FetchInit /\ ProcInit /\ SearchInit /\ RunInit /\ PaceInit /\ WaitInit /\ LoopInit
WaitSpec == WaitSpecInit /\ [][WaitNext]_vars
WaitLiveSpec ==
    /\ WaitSpec
    /\ WF_vars(CallLlm) /\ WF_vars(TryAcquire) /\ WF_vars(\E adv \in ClockMoves : WaitForKey(adv))
    /\ SF_vars(WaitForKey(1))

LoopSpecInit == StoreInit /\ KeyIdle /\ SchedIdle /\ BatchInit /\ NavInit /\ FetchInit /\ ProcInit /\ SearchInit /\ RunInit /\ PaceInit /\ WaitIdle /\ LoopInit
LoopSpec == LoopSpecInit /\ [][LoopLifeNext]_vars

\* the call keeps taking steps until it has returned
NavLiveSpec == NavSpec /\ WF_vars(NavNext)

=============================================================================
